---- MODULE Spec2Model ----
(***************************************************************************)
(* A model of oapi-rustgen: the Analyzer (schema discovery worklist,       *)
(* type-expression resolution, operation definitions), the DefaultRenamer  *)
(* it names things with, the TypesWriter, ClientWriter and ServerWriter,   *)
(* the build driver that runs them and writes the two files, and what the  *)
(* generated client methods and dispatcher do when they run.               *)
(*                                                                         *)
(* Strings are TLA+ strings; where the code looks inside a string (case    *)
(* conversion, prefixes, the path parser) the model works on the string's  *)
(* characters, which Chars gives for the vocabulary of the model.          *)
(* JSON pointers are sequences of (decoded) tokens.                        *)
(***************************************************************************)
EXTENDS Naturals, Sequences, FiniteSets, TLC

VARIABLES
    pc,               \* position of the program: new, collect, ready, operations, done, aborted,
                      \* failed, and the steps of the build driver
    input,            \* the text Analyzer::run was given
    renamer,          \* Analyzer.renamer / AnalysisResult.renamer: "default" or "custom"
    spec,             \* the deserialized Spec (NoSpec before run)
    types_to_check,   \* the work list of collect_types_to_generate
    collected_types,  \* collect_types_to_generate's result, AnalysisResult.schemas
    op_index,         \* operations(): index of the next (path, method, operation)
    operations,       \* operations(): the vector built so far
    abort,            \* the panic of an aborted run: its message and the pointer it names
    error,            \* the Err Analyzer::run returned (NoError when none)
    types,            \* the definitions TypesWriter::write emitted
    client,           \* the methods ClientWriter::write emitted
    server,           \* the dispatcher branches ServerWriter::write emitted
    files,            \* the output files the build driver has written
    reply             \* the last result of running a generated method or the dispatcher

vars == <<pc, input, renamer, spec, types_to_check, collected_types, op_index, operations, abort,
          error, types, client, server, files, reply>>

\* the state of the writers and of the build driver
output_vars == <<error, types, client, server, files, reply>>

-----------------------------------------------------------------------------
(* Characters *)

Lowers == <<"a","b","c","d","e","f","g","h","i","j","k","l","m",
            "n","o","p","q","r","s","t","u","v","w","x","y","z">>
Uppers == <<"A","B","C","D","E","F","G","H","I","J","K","L","M",
            "N","O","P","Q","R","S","T","U","V","W","X","Y","Z">>
Digits == <<"0","1","2","3","4","5","6","7","8","9">>

Range(f) == {f[i] : i \in DOMAIN f}

LowerSet == Range(Lowers)
UpperSet == Range(Uppers)
DigitSet == Range(Digits)

IsLower(c) == c \in LowerSet
IsUpper(c) == c \in UpperSet
IsDigit(c) == c \in DigitSet
IsLetter(c) == IsLower(c) \/ IsUpper(c)
IsAlphanumeric(c) == IsLetter(c) \/ IsDigit(c)

UpperOf == [c \in LowerSet |-> Uppers[CHOOSE i \in DOMAIN Lowers : Lowers[i] = c]]
LowerOf == [c \in UpperSet |-> Lowers[CHOOSE i \in DOMAIN Uppers : Uppers[i] = c]]

\* char::to_uppercase and char::to_lowercase on the ASCII letters
ToUpper(c) == IF IsLower(c) THEN UpperOf[c] ELSE c
ToLower(c) == IF IsUpper(c) THEN LowerOf[c] ELSE c

RECURSIVE Str(_)
\* the string spelled by a sequence of characters
Str(cs) == IF cs = <<>> THEN "" ELSE Head(cs) \o Str(Tail(cs))

RECURSIVE FlatMap(_, _)
\* concatenation of Op(c) over the elements of a sequence
FlatMap(Op(_), cs) == IF cs = <<>> THEN <<>> ELSE Op(Head(cs)) \o FlatMap(Op, Tail(cs))

HasPrefix(cs, pre) == Len(cs) >= Len(pre) /\ SubSeq(cs, 1, Len(pre)) = pre

RECURSIVE ToStringNat(_)
\* usize::to_string
ToStringNat(i) == IF i < 10 THEN Digits[i + 1]
                  ELSE ToStringNat(i \div 10) \o Digits[(i % 10) + 1]

-----------------------------------------------------------------------------
(* convert_case: word splitting and the Pascal and Snake cases *)

IsDelimiter(c) == c \in {"_", "-", " "}

\* a word boundary between the previous character p and c (n follows c, "" at the end)
IsBoundary(p, c, n) ==
    \/ IsLower(p) /\ IsUpper(c)
    \/ IsLetter(p) /\ IsDigit(c)
    \/ IsDigit(p) /\ IsLetter(c)
    \/ IsUpper(p) /\ IsUpper(c) /\ IsLower(n)

RECURSIVE SplitWords(_, _, _, _)
SplitWords(cs, i, cur, acc) ==
    IF i > Len(cs) THEN (IF cur = <<>> THEN acc ELSE Append(acc, cur))
    ELSE LET c == cs[i]
             n == IF i < Len(cs) THEN cs[i + 1] ELSE ""
             flushed == IF cur = <<>> THEN acc ELSE Append(acc, cur)
         IN  IF IsDelimiter(c) THEN SplitWords(cs, i + 1, <<>>, flushed)
             ELSE IF cur # <<>> /\ IsBoundary(cs[i - 1], c, n)
                  THEN SplitWords(cs, i + 1, <<c>>, flushed)
                  ELSE SplitWords(cs, i + 1, Append(cur, c), acc)

Words(cs) == SplitWords(cs, 1, <<>>, <<>>)

Capitalize(w) == <<ToUpper(Head(w))>> \o [i \in 1..(Len(w) - 1) |-> ToLower(w[i + 1])]
Lowercase(w) == [i \in 1..Len(w) |-> ToLower(w[i])]

\* to_case(Case::Pascal) on characters
PascalChars(cs) == FlatMap(Capitalize, Words(cs))

RECURSIVE JoinWords(_, _)
JoinWords(ws, sep) ==
    IF ws = <<>> THEN <<>>
    ELSE IF Len(ws) = 1 THEN Head(ws)
    ELSE Head(ws) \o sep \o JoinWords(Tail(ws), sep)

\* to_case(Case::Snake) on characters
SnakeChars(cs) == JoinWords([i \in 1..Len(Words(cs)) |-> Lowercase(Words(cs)[i])], <<"_">>)

-----------------------------------------------------------------------------
(* The strings of the model, spelled out *)

Vocabulary == <<
    <<"c","o","m","p","o","n","e","n","t","s">>,
    <<"s","c","h","e","m","a","s">>,
    <<"r","e","s","p","o","n","s","e","s">>,
    <<"p","a","r","a","m","e","t","e","r","s">>,
    <<"r","e","q","u","e","s","t","B","o","d","i","e","s">>,
    <<"p","a","t","h","s">>,
    <<"c","o","n","t","e","n","t">>,
    <<"s","c","h","e","m","a">>,
    <<"r","e","q","u","e","s","t","B","o","d","y">>,
    <<"r","e","q","u","e","s","t","_","b","o","d","y">>,
    <<"p","r","o","p","e","r","t","i","e","s">>,
    <<"i","t","e","m","s">>,
    <<"a","n","y","O","f">>,
    <<"a","l","l","O","f">>,
    <<"o","n","e","O","f">>,
    <<"a","p","p","l","i","c","a","t","i","o","n","/","j","s","o","n">>,
    <<"t","e","x","t","/","p","l","a","i","n">>,
    <<"G","E","T">>,
    <<"P","O","S","T">>,
    <<"D","E","L","E","T","E">>,
    <<"g","e","t">>,
    <<"p","o","s","t">>,
    <<"d","e","l","e","t","e">>,
    <<"0">>,
    <<"1">>,
    <<"2">>,
    <<"3">>,
    <<"2","0","0">>,
    <<"2","0","4">>,
    <<"d","e","f","a","u","l","t">>,
    <<"I","d">>,
    <<"P","e","t">>,
    <<"P","e","t","s">>,
    <<"T","h","i","n","g">>,
    <<"E","r","r">>,
    <<"G","o","n","e">>,
    <<"N","e","w","P","e","t">>,
    <<"l","i","m","i","t">>,
    <<"f","i","l","t","e","r">>,
    <<"p","e","t","I","d">>,
    <<"i","d">>,
    <<"t","a","g">>,
    <<"n","a","m","e">>,
    <<"c","o","d","e">>,
    <<"f","i","n","d","P","e","t","s">>,
    <<"/","p","e","t","s">>,
    <<"/","p","e","t","s","/","{","i","d","}">>,
    <<"/","p","e","t","s","/","{","p","e","t","I","d","}">>,
    <<"/">>,
    <<"/","{","i","d","}">>,
    <<"/","{","i","d","}","/","p","e","t","s">>,
    <<"/","p","e","t","s","/","{","i","d","}","/","t","a","g">>,
    <<"/","p","e","t","s","/","{","i","d">>,
    <<"/","p","e","t","s","/","i","d","}">>,
    <<"/","p","e","t","s","/","{","i","d","}","}">>
>>

VocabularyStrings == {Str(cs) : cs \in Range(Vocabulary)}

CharsOf == [s \in VocabularyStrings |-> CHOOSE cs \in Range(Vocabulary) : Str(cs) = s]

\* the characters of a string of the model
Chars(s) == CharsOf[s]

\* str::to_lowercase
ToLowercase(s) == Str(Lowercase(Chars(s)))

-----------------------------------------------------------------------------
(* JSON pointers: sequences of decoded tokens *)

Root == <<>>

\* join_ptr!(p, t1, ..., tn)
join_ptr(p, toks) == p \o toks

\* jsonptr's token encoding, as the pointer's string form holds it
EncodeChar(c) == IF c = "~" THEN <<"~", "0">> ELSE IF c = "/" THEN <<"~", "1">> ELSE <<c>>
EncodeToken(tok) == FlatMap(EncodeChar, Chars(tok))

-----------------------------------------------------------------------------
(* The Spec tree.  Option<T> is a sequence of length 0 or 1; a map is a     *)
(* sequence of entries in key order; an ObjectOrReference<T> is T's record  *)
(* with a ref field holding the `$ref` pointer when it is a Ref.            *)

None == <<>>
Some(v) == <<v>>
IsSome(o) == o # <<>>
Unwrap(o) == o[1]

\* Schema (an inline ObjectOrReference<Schema> has ref = None)
Schema(t) == [ref |-> None, schema_type |-> t, format |-> "", nullable |-> FALSE,
              required |-> {}, properties |-> <<>>, items |-> None,
              any_of |-> <<>>, all_of |-> <<>>, one_of |-> <<>>]

\* ObjectOrReference::Ref { ref_path }
SchemaRef(p) == [Schema("none") EXCEPT !.ref = Some(p)]

IsRef(o) == IsSome(o.ref)
IsObject(o) == ~IsRef(o)

Nullable(s) == [s EXCEPT !.nullable = TRUE]
WithFormat(s, f) == [s EXCEPT !.format = f]
ObjectSchema(props, req) == [Schema("object") EXCEPT !.properties = props, !.required = req]
ArraySchema(items) == [Schema("array") EXCEPT !.items = items]
Property(n, s) == [name |-> n, schema |-> s]

\* MediaType and the content map of a response or request body
MediaType(m, s) == [media_type |-> m, schema |-> s]
\* Response, RequestBody
Body(content) == [ref |-> None, content |-> content]
BodyRef(p) == [ref |-> Some(p), content |-> <<>>]
\* Parameter
Parameter(n, loc, s) == [ref |-> None, name |-> n, location |-> loc, schema |-> s]
ParameterRef(p) == [ref |-> Some(p), name |-> "", location |-> "", schema |-> None]

Entry(n, v) == [name |-> n, value |-> v]

\* the value of key k in map m (Option)
RECURSIVE Get(_, _)
Get(m, k) == IF m = <<>> THEN None
             ELSE IF Head(m).name = k THEN Some(Head(m).value)
             ELSE Get(Tail(m), k)

Keys(m) == {m[i].name : i \in DOMAIN m}

\* the schema of media type k in a content map (content.get(k).and_then(|v| v.schema))
RECURSIVE ContentSchema(_, _)
ContentSchema(content, k) ==
    IF content = <<>> THEN None
    ELSE IF Head(content).media_type = k THEN Head(content).schema
    ELSE ContentSchema(Tail(content), k)

\* the index an array-index token names in a sequence of length n (Option)
TokenIndex(tok, n) ==
    IF \E i \in 0..(n - 1) : ToStringNat(i) = tok
    THEN Some(CHOOSE i \in 0..(n - 1) : ToStringNat(i) = tok)
    ELSE None

RECURSIVE GetProperty(_, _)
GetProperty(props, k) ==
    IF props = <<>> THEN None
    ELSE IF Head(props).name = k THEN Some(Head(props).schema)
    ELSE GetProperty(Tail(props), k)

\* serde_json Value::resolve below a schema node: the node a pointer suffix names
RECURSIVE ResolveInSchema(_, _)
ResolveInSchema(node, rest) ==
    IF rest = <<>> THEN Some(node)
    ELSE IF IsRef(node) THEN None
    ELSE LET t == Head(rest)
             branches == IF t = "anyOf" THEN node.any_of
                         ELSE IF t = "allOf" THEN node.all_of
                         ELSE node.one_of
         IN  IF t = "items"
             THEN (IF IsSome(node.items) THEN ResolveInSchema(Unwrap(node.items), Tail(rest))
                   ELSE None)
             ELSE IF Len(rest) < 2 THEN None
             ELSE IF t = "properties"
             THEN (IF IsSome(GetProperty(node.properties, rest[2]))
                   THEN ResolveInSchema(Unwrap(GetProperty(node.properties, rest[2])),
                                        SubSeq(rest, 3, Len(rest)))
                   ELSE None)
             ELSE IF t \in {"anyOf", "allOf", "oneOf"}
             THEN (IF IsSome(TokenIndex(rest[2], Len(branches)))
                   THEN ResolveInSchema(branches[Unwrap(TokenIndex(rest[2], Len(branches))) + 1],
                                        SubSeq(rest, 3, Len(rest)))
                   ELSE None)
             ELSE None

\* .../content/{M}/schema/... below an inline response or request body
ResolveInBody(body, rest) ==
    IF IsRef(body) \/ Len(rest) < 3 \/ rest[1] # "content" \/ rest[3] # "schema" THEN None
    ELSE IF IsSome(ContentSchema(body.content, rest[2]))
    THEN ResolveInSchema(Unwrap(ContentSchema(body.content, rest[2])), SubSeq(rest, 4, Len(rest)))
    ELSE None

ResolveInParameter(param, rest) ==
    IF IsRef(param) \/ Len(rest) < 1 \/ rest[1] # "schema" \/ ~IsSome(param.schema) THEN None
    ELSE ResolveInSchema(Unwrap(param.schema), Tail(rest))

\* the (path, method, operation) entries of the paths map
RECURSIVE FindOperation(_, _, _)
FindOperation(ops, path, method) ==
    IF ops = <<>> THEN None
    ELSE IF Head(ops).path = path /\ ToLowercase(Head(ops).method) = method THEN Some(Head(ops))
    ELSE FindOperation(Tail(ops), path, method)

ResolveInOperation(op, rest) ==
    IF rest = <<>> THEN None
    ELSE IF rest[1] = "parameters" /\ Len(rest) >= 2
    THEN (IF IsSome(TokenIndex(rest[2], Len(op.parameters)))
          THEN ResolveInParameter(op.parameters[Unwrap(TokenIndex(rest[2], Len(op.parameters))) + 1],
                                  SubSeq(rest, 3, Len(rest)))
          ELSE None)
    ELSE IF rest[1] = "requestBody"
    THEN (IF IsSome(op.request_body) THEN ResolveInBody(Unwrap(op.request_body), Tail(rest))
          ELSE None)
    ELSE IF rest[1] = "responses" /\ Len(rest) >= 2
    THEN (IF IsSome(Get(op.responses, rest[2]))
          THEN ResolveInBody(Unwrap(Get(op.responses, rest[2])), SubSeq(rest, 3, Len(rest)))
          ELSE None)
    ELSE None

\* the schema node a pointer names in the serialized spec (Option)
Resolve(s, ptr) ==
    IF Len(ptr) < 3 THEN None
    ELSE LET rest == SubSeq(ptr, 4, Len(ptr))
         IN  IF ptr[1] = "components"
             THEN (IF ptr[2] = "schemas"
                   THEN (IF IsSome(Get(s.components.schemas, ptr[3]))
                         THEN ResolveInSchema(Unwrap(Get(s.components.schemas, ptr[3])), rest)
                         ELSE None)
                   ELSE IF ptr[2] = "responses"
                   THEN (IF IsSome(Get(s.components.responses, ptr[3]))
                         THEN ResolveInBody(Unwrap(Get(s.components.responses, ptr[3])), rest)
                         ELSE None)
                   ELSE IF ptr[2] = "parameters"
                   THEN (IF IsSome(Get(s.components.parameters, ptr[3]))
                         THEN ResolveInParameter(Unwrap(Get(s.components.parameters, ptr[3])), rest)
                         ELSE None)
                   ELSE IF ptr[2] = "requestBodies"
                   THEN (IF IsSome(Get(s.components.request_bodies, ptr[3]))
                         THEN ResolveInBody(Unwrap(Get(s.components.request_bodies, ptr[3])), rest)
                         ELSE None)
                   ELSE None)
             ELSE IF ptr[1] = "paths"
             THEN (IF IsSome(FindOperation(s.paths, ptr[2], ptr[3]))
                   THEN ResolveInOperation(Unwrap(FindOperation(s.paths, ptr[2], ptr[3])), rest)
                   ELSE None)
             ELSE None

\* Parameter::from_ref: the components/parameters entry a reference names
ResolveParameter(s, p) ==
    IF IsObject(p) THEN Some(p)
    ELSE LET ref_path == Unwrap(p.ref)
         IN  IF Len(ref_path) = 3 /\ ref_path[1] = "components" /\ ref_path[2] = "parameters"
                /\ IsSome(Get(s.components.parameters, ref_path[3]))
                /\ IsObject(Unwrap(Get(s.components.parameters, ref_path[3])))
             THEN Get(s.components.parameters, ref_path[3])
             ELSE None

-----------------------------------------------------------------------------
(* DefaultRenamer *)

Max(S) == CHOOSE x \in S : \A y \in S : y <= x

\* str::split on a separator, on characters
RECURSIVE SplitOn(_, _, _, _)
SplitOn(cs, sep, cur, acc) ==
    IF cs = <<>> THEN Append(acc, cur)
    ELSE IF HasPrefix(cs, sep)
    THEN SplitOn(SubSeq(cs, Len(sep) + 1, Len(cs)), sep, <<>>, Append(acc, cur))
    ELSE SplitOn(Tail(cs), sep, Append(cur, Head(cs)), acc)

Filter(cs, Keep(_)) == FlatMap(LAMBDA c : IF Keep(c) THEN <<c>> ELSE <<>>, cs)

\* name_from_nth_match: the captured token in Pascal case, alphanumerics only
name_from_nth_match(tok) == Str(Filter(PascalChars(EncodeToken(tok)), IsAlphanumeric))

\* a `{param}` segment without its braces
UnwrapSegment(seg) ==
    IF Len(seg) >= 1 /\ Head(seg) = "{" /\ seg[Len(seg)] = "}"
    THEN SubSeq(seg, 2, Len(seg) - 1)
    ELSE seg

UppercaseFirst(seg) == IF seg = <<>> THEN <<>> ELSE <<ToUpper(Head(seg))>> \o Tail(seg)

\* OPERATION_REGEX ^/paths/([^/]+)/([^/]+)
MatchesOperation(ptr) == Len(ptr) >= 3 /\ ptr[1] = "paths" /\ ptr[2] # "" /\ ptr[3] # ""

\* DefaultRenamer::name_operation, on characters; the pointer matches OPERATION_REGEX
name_operation_chars(s, ptr) ==
    LET op == IF Len(ptr) = 3 /\ ptr[1] = "paths" THEN FindOperation(s.paths, ptr[2], ptr[3])
              ELSE None
        segments == SplitOn(EncodeToken(ptr[2]), <<"~", "1">>, <<>>, <<>>)
        path_name == FlatMap(LAMBDA seg : UppercaseFirst(UnwrapSegment(seg)), segments)
    IN  IF IsSome(op) /\ IsSome(Unwrap(op).operation_id)
        THEN PascalChars(Chars(Unwrap(Unwrap(op).operation_id)))
        ELSE PascalChars(EncodeToken(ptr[3])) \o PascalChars(path_name)

\* DefaultRenamer::name_operation
name_operation(s, ptr) == Str(name_operation_chars(s, ptr))

\* DefaultRenamer::operation_name_from_captures
operation_name_from_captures(s, ptr) == name_operation(s, SubSeq(ptr, 1, 3))

\* the component rules, tried only below /components/
IsComponentPtr(ptr) ==
    /\ Len(ptr) >= 2 /\ ptr[1] = "components"
    /\ \/ Len(ptr) = 3 /\ ptr[2] = "schemas" /\ ptr[3] # ""
       \/ Len(ptr) = 6 /\ ptr[2] = "requestBodies" /\ ptr[3] # "" /\ ptr[4] = "content"
          /\ ptr[5] # "" /\ ptr[6] = "schema"
       \/ Len(ptr) = 4 /\ ptr[2] = "parameters" /\ ptr[3] # "" /\ ptr[4] = "schema"
       \/ Len(ptr) = 6 /\ ptr[2] = "responses" /\ ptr[3] # "" /\ ptr[4] = "content"
          /\ ptr[5] # "" /\ ptr[6] = "schema"

\* OPERATION_REQUEST_BODY_REGEX
IsOperationRequestBodyPtr(ptr) ==
    /\ Len(ptr) = 7 /\ MatchesOperation(ptr)
    /\ ptr[4] = "requestBody" /\ ptr[5] = "content" /\ ptr[6] # "" /\ ptr[7] = "schema"

\* OPERATION_PARAMETER_REGEX
IsOperationParameterPtr(ptr) ==
    /\ Len(ptr) = 6 /\ MatchesOperation(ptr)
    /\ ptr[4] = "parameters" /\ ptr[5] # "" /\ ptr[6] = "schema"

\* OPERATION_RESPONSE_BODY_REGEX
IsOperationResponseBodyPtr(ptr) ==
    /\ Len(ptr) = 8 /\ MatchesOperation(ptr)
    /\ ptr[4] = "responses" /\ ptr[5] # "" /\ ptr[6] = "content" /\ ptr[7] # ""
    /\ ptr[8] = "schema"

\* SCHEMA_PROPERTY_REGEX (.+)/properties/([^/]+): the positions of a matching properties token
PropertyMatches(ptr) == {k \in 2..(Len(ptr) - 1) : ptr[k] = "properties" /\ ptr[k + 1] # ""}

\* SCHEMA_ITEMS_REGEX (.+)/items: the positions of a token that starts with items
ItemsMatches(ptr) == {k \in 2..Len(ptr) : HasPrefix(EncodeToken(ptr[k]), Chars("items"))}

\* SCHEMA_COMPOSITE_REGEX (.+)/(anyOf|allOf|oneOf)/([0-9]+)
CompositeMatches(ptr) ==
    {k \in 2..(Len(ptr) - 1) : /\ ptr[k] \in {"anyOf", "allOf", "oneOf"}
                               /\ ptr[k + 1] # ""
                               /\ IsDigit(Head(EncodeToken(ptr[k + 1])))}

\* the leading run of digits of a token, the ([0-9]+) group
RECURSIVE LeadingDigits(_)
LeadingDigits(cs) ==
    IF cs = <<>> \/ ~IsDigit(Head(cs)) THEN <<>> ELSE <<Head(cs)>> \o LeadingDigits(Tail(cs))

\* whether DefaultRenamer::name_type returns (it hits unreachable! otherwise)
RECURSIVE name_type_returns(_)
name_type_returns(ptr) ==
    \/ IsComponentPtr(ptr)
    \/ IsOperationRequestBodyPtr(ptr)
    \/ IsOperationParameterPtr(ptr)
    \/ IsOperationResponseBodyPtr(ptr)
    \/ IF PropertyMatches(ptr) # {}
       THEN name_type_returns(SubSeq(ptr, 1, Max(PropertyMatches(ptr)) - 1))
       ELSE IF ItemsMatches(ptr) # {}
       THEN name_type_returns(SubSeq(ptr, 1, Max(ItemsMatches(ptr)) - 1))
       ELSE IF CompositeMatches(ptr) # {}
       THEN name_type_returns(SubSeq(ptr, 1, Max(CompositeMatches(ptr)) - 1))
       ELSE FALSE

\* DefaultRenamer::name_type
RECURSIVE name_type(_, _)
name_type(s, ptr) ==
    IF IsComponentPtr(ptr) THEN name_from_nth_match(ptr[3])
    ELSE IF IsOperationRequestBodyPtr(ptr)
    THEN operation_name_from_captures(s, ptr) \o "Request"
    ELSE IF IsOperationParameterPtr(ptr)
    THEN operation_name_from_captures(s, ptr) \o "Parameter" \o Str(EncodeToken(ptr[5]))
    ELSE IF IsOperationResponseBodyPtr(ptr)
    THEN operation_name_from_captures(s, ptr) \o "Response" \o Str(EncodeToken(ptr[5]))
    ELSE IF PropertyMatches(ptr) # {}
    THEN LET k == Max(PropertyMatches(ptr))
         IN  name_type(s, SubSeq(ptr, 1, k - 1)) \o Str(PascalChars(EncodeToken(ptr[k + 1])))
    ELSE IF ItemsMatches(ptr) # {}
    THEN name_type(s, SubSeq(ptr, 1, Max(ItemsMatches(ptr)) - 1)) \o "Item"
    ELSE IF CompositeMatches(ptr) # {}
    THEN LET k == Max(CompositeMatches(ptr))
         IN  name_type(s, SubSeq(ptr, 1, k - 1)) \o "V"
               \o Str(LeadingDigits(EncodeToken(ptr[k + 1])))
    ELSE "unreachable"

\* a Renamer other than the default one, as with_renamer takes it: it names every
\* type and operation differently from DefaultRenamer
custom_name_type(s, ptr) == "My" \o name_type(s, ptr)
custom_name_operation_chars(s, ptr) == <<"M", "y">> \o name_operation_chars(s, ptr)

Renamers == {"default", "custom"}

\* dyn Renamer dispatch
renamer_name_type(r, s, ptr) ==
    IF r = "default" THEN name_type(s, ptr) ELSE custom_name_type(s, ptr)
renamer_name_operation_chars(r, s, ptr) ==
    IF r = "default" THEN name_operation_chars(s, ptr) ELSE custom_name_operation_chars(s, ptr)
renamer_name_operation(r, s, ptr) == Str(renamer_name_operation_chars(r, s, ptr))
\* name_parameter, to_case(Case::Snake) in both renamers
renamer_name_parameter(r, n) == Str(SnakeChars(Chars(n)))
\* name_property, to_case(Case::Snake) in both renamers
renamer_name_property(r, n) == Str(SnakeChars(Chars(n)))

-----------------------------------------------------------------------------
(* Analyzer: schema discovery *)

CollectedSchema(loc, n, sch) == [location |-> loc, name |-> n, schema |-> sch]

\* the (index, element) enumeration of a sequence, indices from 0
Enumerate(seq) == [i \in 1..Len(seq) |-> [index |-> i - 1, value |-> seq[i]]]

\* collect_initial_types_from_media_types: the media types with an inline schema
collect_initial_types_from_media_types(content) ==
    FlatMap(LAMBDA m : IF IsSome(m.schema) /\ IsObject(Unwrap(m.schema))
                       THEN <<m.media_type>> ELSE <<>>,
            content)

\* the seeds below one inline response or request body at pointer base
BodySeeds(base, body) ==
    IF IsRef(body) THEN <<>>
    ELSE FlatMap(LAMBDA m : <<join_ptr(base, <<"content", m, "schema">>)>>,
                 collect_initial_types_from_media_types(body.content))

\* the seeds of one (path, method, operation)
OperationSeeds(e) ==
    LET operation_ptr == <<"paths", e.path, ToLowercase(e.method)>>
    IN  FlatMap(LAMBDA ip : IF IsObject(ip.value) /\ IsSome(ip.value.schema)
                            THEN <<join_ptr(operation_ptr,
                                            <<"parameters", ToStringNat(ip.index), "schema">>)>>
                            ELSE <<>>,
                Enumerate(e.parameters))
        \o (IF IsSome(e.request_body)
            THEN BodySeeds(join_ptr(operation_ptr, <<"requestBody">>), Unwrap(e.request_body))
            ELSE <<>>)
        \o FlatMap(LAMBDA r : BodySeeds(join_ptr(operation_ptr, <<"responses", r.name>>), r.value),
                   e.responses)

\* collect_initial_types_to_generate
collect_initial_types_to_generate(s) ==
    LET components_ptr == join_ptr(Root, <<"components">>)
    IN  FlatMap(LAMBDA e : <<join_ptr(components_ptr, <<"schemas", e.name>>)>>,
                s.components.schemas)
        \o FlatMap(LAMBDA e : BodySeeds(join_ptr(components_ptr, <<"responses", e.name>>), e.value),
                   s.components.responses)
        \o FlatMap(LAMBDA e : IF IsObject(e.value) /\ IsSome(e.value.schema)
                              THEN <<join_ptr(components_ptr, <<"parameters", e.name, "schema">>)>>
                              ELSE <<>>,
                   s.components.parameters)
        \o FlatMap(LAMBDA e : BodySeeds(join_ptr(components_ptr, <<"requestBodies", e.name>>),
                                        e.value),
                   s.components.request_bodies)
        \o FlatMap(OperationSeeds, s.paths)

IsComposite(sch) == sch.any_of # <<>> \/ sch.all_of # <<>> \/ sch.one_of # <<>>

\* the pointers of the branches of a composite at type_ptr, in push order
BranchPtrs(type_ptr, sch) ==
    [i \in 1..Len(sch.any_of) |-> join_ptr(type_ptr, <<"anyOf", ToStringNat(i - 1)>>)]
    \o [i \in 1..Len(sch.all_of) |-> join_ptr(type_ptr, <<"allOf", ToStringNat(i - 1)>>)]
    \o [i \in 1..Len(sch.one_of) |-> join_ptr(type_ptr, <<"oneOf", ToStringNat(i - 1)>>)]

\* the pointers of the inline properties of an object at type_ptr
PropertyPtrs(type_ptr, sch) ==
    FlatMap(LAMBDA p : IF IsObject(p.schema)
                       THEN <<join_ptr(type_ptr, <<"properties", p.name>>)>> ELSE <<>>,
            sch.properties)

\* the pointer of the inline items of an array at type_ptr
ItemsPtrs(type_ptr, sch) ==
    IF IsSome(sch.items) /\ IsObject(Unwrap(sch.items))
    THEN <<join_ptr(type_ptr, <<"items">>)>> ELSE <<>>

\* the name collect_types_to_generate gives a collected schema
collected_name(r, s, type_ptr) == name_type(s, type_ptr)

\* collected_of with array schemas recorded as well
collected_of_with_arrays(r, s, type_ptr, sch) ==
    IF IsObject(sch) /\ (IsComposite(sch) \/ sch.schema_type \in {"object", "array"})
    THEN <<CollectedSchema(type_ptr, collected_name(r, s, type_ptr), sch)>>
    ELSE <<>>

\* the schemas one iteration of the work-list loop records for the popped pointer
collected_of(r, s, type_ptr, sch) ==
    IF IsObject(sch) /\ (IsComposite(sch) \/ sch.schema_type = "object")
    THEN <<CollectedSchema(type_ptr, collected_name(r, s, type_ptr), sch)>>
    ELSE <<>>

\* pushed_of with the inline properties of an object pushed once per property and
\* once more per inline property that is itself an object
pushed_of_twice(type_ptr, sch) ==
    IF IsRef(sch) THEN <<>>
    ELSE IF IsComposite(sch) THEN BranchPtrs(type_ptr, sch)
    ELSE IF sch.schema_type = "object"
    THEN PropertyPtrs(type_ptr, sch)
         \o FlatMap(LAMBDA p : IF IsObject(p.schema) /\ p.schema.schema_type = "object"
                                THEN <<join_ptr(type_ptr, <<"properties", p.name>>)>> ELSE <<>>,
                     sch.properties)
    ELSE IF sch.schema_type = "array" THEN ItemsPtrs(type_ptr, sch)
    ELSE <<>>

\* pushed_of with the pointer of a composite pushed again in place of each of its
\* branches: the pushed pointers do not extend the popped one
pushed_of_same_pointer(type_ptr, sch) ==
    IF IsRef(sch) THEN <<>>
    ELSE IF IsComposite(sch) THEN [i \in DOMAIN BranchPtrs(type_ptr, sch) |-> type_ptr]
    ELSE IF sch.schema_type = "object" THEN PropertyPtrs(type_ptr, sch)
    ELSE IF sch.schema_type = "array" THEN ItemsPtrs(type_ptr, sch)
    ELSE <<>>

\* the pointers one iteration of the work-list loop pushes for the popped pointer
pushed_of(type_ptr, sch) ==
    IF IsRef(sch) THEN <<>>
    ELSE IF IsComposite(sch) THEN BranchPtrs(type_ptr, sch)
    ELSE IF sch.schema_type = "object" THEN PropertyPtrs(type_ptr, sch)
    ELSE IF sch.schema_type = "array" THEN ItemsPtrs(type_ptr, sch)
    ELSE <<>>

-----------------------------------------------------------------------------
(* AnalysisResult.  A call that can panic returns Ok(v) or Panic(message,    *)
(* pointer): the panic message of the code, and the pointer or path it names. *)

Ok(v) == [panic |-> "", at |-> <<>>, v |-> v]
Panic(msg, p) == [panic |-> msg, at |-> p, v |-> ""]
IsOk(r) == r.panic = ""

\* AnalysisResult::find_schema: the first collected schema at a pointer (Option)
RECURSIVE find_schema(_, _)
find_schema(schemas, ptr) ==
    IF schemas = <<>> THEN None
    ELSE IF Head(schemas).location = ptr THEN Some(Head(schemas))
    ELSE find_schema(Tail(schemas), ptr)

\* make_nullable
make_nullable(sch, str) == IF IsObject(sch) /\ sch.nullable THEN "Option<" \o str \o ">" ELSE str

\* AnalysisResult::name_type
RECURSIVE analysis_name_type(_, _, _)
analysis_name_type(schemas, ptr, sch) ==
    IF IsSome(find_schema(schemas, ptr)) THEN Ok(Unwrap(find_schema(schemas, ptr)).name)
    ELSE IF IsRef(sch)
    THEN (IF IsSome(find_schema(schemas, Unwrap(sch.ref)))
          THEN Ok(Unwrap(find_schema(schemas, Unwrap(sch.ref))).name)
          ELSE Panic("reference should exist as schema", Unwrap(sch.ref)))
    ELSE IF sch.schema_type = "object"
    THEN (IF IsSome(find_schema(schemas, ptr))
          THEN Ok(make_nullable(sch, Unwrap(find_schema(schemas, ptr)).name))
          ELSE Panic("property should exist as schema", ptr))
    ELSE IF sch.schema_type = "array"
    THEN (IF IsSome(sch.items)
          THEN LET inner == analysis_name_type(schemas, join_ptr(ptr, <<"items">>),
                                               Unwrap(sch.items))
               IN  IF IsOk(inner) THEN Ok(make_nullable(sch, "Vec<" \o inner.v \o ">"))
                   ELSE inner
          ELSE Ok(make_nullable(sch, "Vec<serde_json::Value>")))
    ELSE IF sch.schema_type = "integer"
    THEN Ok(make_nullable(sch, IF sch.format = "int32" THEN "i32" ELSE "i64"))
    ELSE IF sch.schema_type = "number"
    THEN Ok(make_nullable(sch, IF sch.format = "float" THEN "f32" ELSE "f64"))
    ELSE IF sch.schema_type = "string" THEN Ok(make_nullable(sch, "String"))
    ELSE IF sch.schema_type = "boolean" THEN Ok(make_nullable(sch, "bool"))
    ELSE Ok("serde_json::Value")

\* SegmentOrParameter
Segment(str) == [kind |-> "Segment", s |-> str]
PathParameter(str) == [kind |-> "Parameter", s |-> str]

Pop(memo) == SubSeq(memo, 1, Len(memo) - 1)
Last(memo) == memo[Len(memo)]

\* parse_path_char with '{' pushing the parameter without popping the empty
\* segment that '/' pushed
parse_path_char_keeps_segment(memo, c) ==
    IF c = "/" THEN Ok(IF memo # <<>> THEN Append(memo, Segment("")) ELSE memo)
    ELSE IF c = "{"
    THEN (IF memo # <<>> /\ Last(memo).s = ""
          THEN Ok(Append(memo, PathParameter("")))
          ELSE Panic("parameter start is incorrect for path", <<>>))
    ELSE IF c = "}"
    THEN (IF memo # <<>> /\ Last(memo).kind = "Parameter" THEN Ok(memo)
          ELSE Panic("parameter end is incorrect for path", <<>>))
    ELSE IF memo = <<>> THEN Ok(<<Segment(c)>>)
    ELSE Ok(Append(Pop(memo), [Last(memo) EXCEPT !.s = @ \o c]))

\* one step of the fold over the characters of a path
parse_path_char(memo, c) ==
    IF c = "/" THEN Ok(IF memo # <<>> THEN Append(memo, Segment("")) ELSE memo)
    ELSE IF c = "{"
    THEN (IF memo # <<>> /\ Last(memo).s = ""
          THEN Ok(Append(Pop(memo), PathParameter("")))
          ELSE Panic("parameter start is incorrect for path", <<>>))
    ELSE IF c = "}"
    THEN (IF memo # <<>> /\ Last(memo).kind = "Parameter" THEN Ok(memo)
          ELSE Panic("parameter end is incorrect for path", <<>>))
    ELSE IF memo = <<>> THEN Ok(<<Segment(c)>>)
    ELSE Ok(Append(Pop(memo), [Last(memo) EXCEPT !.s = @ \o c]))

\* the fold of operations() over a path's characters
RECURSIVE parse_path(_, _)
parse_path(memo, cs) ==
    IF cs = <<>> THEN Ok(memo)
    ELSE LET step == parse_path_char(memo, Head(cs))
         IN  IF IsOk(step) THEN parse_path(step.v, Tail(cs)) ELSE step

ParameterDef(n, loc, ty) == [name |-> n, location |-> loc, schema_type |-> ty]

\* the closure operations() maps over the enumerated parameters:
\* Ok of the ((name, location), ParameterDef) pair, or the panic
parameter_def(r, s, schemas, ptr, i, p_or_ref) ==
    LET param_ptr == join_ptr(ptr, <<"parameters", ToStringNat(i), "schema">>)
        param == ResolveParameter(s, p_or_ref)
    IN  IF ~IsSome(param) THEN Panic("should be resolvable", <<>>)
        ELSE IF ~IsSome(Unwrap(param).schema) THEN Panic("should have a schema", <<>>)
        ELSE IF IsObject(p_or_ref)
        THEN LET ty == analysis_name_type(schemas, param_ptr, Unwrap(Unwrap(param).schema))
             IN  IF IsOk(ty)
                 THEN Ok([key |-> <<p_or_ref.name, p_or_ref.location>>,
                          def |-> ParameterDef(renamer_name_parameter(r, p_or_ref.name),
                                               p_or_ref.location, ty.v)])
                 ELSE ty
        ELSE IF IsSome(find_schema(schemas, Unwrap(p_or_ref.ref)))
        THEN Ok([key |-> <<Unwrap(param).name, Unwrap(param).location>>,
                 def |-> ParameterDef(renamer_name_parameter(r, Unwrap(param).name),
                                      Unwrap(param).location,
                                      Unwrap(find_schema(schemas, Unwrap(p_or_ref.ref))).name)])
        ELSE Panic("reference should exist as schema", Unwrap(p_or_ref.ref))

\* the parameters map of one operation: Ok of the map (a function on its keys), or
\* the first panic
RECURSIVE parameter_defs(_, _, _, _, _, _)
parameter_defs(r, s, schemas, ptr, ips, acc) ==
    IF ips = <<>> THEN Ok(acc)
    ELSE LET d == parameter_def(r, s, schemas, ptr, Head(ips).index, Head(ips).value)
         IN  IF IsOk(d)
             THEN parameter_defs(r, s, schemas, ptr, Tail(ips), (d.v.key :> d.v.def) @@ acc)
             ELSE d

\* the type name of the application/json schema of an inline body (Ok of an Option)
json_body_type(schemas, ptr, body) ==
    LET sch == ContentSchema(body.content, "application/json")
        ty == analysis_name_type(schemas, ptr, Unwrap(sch))
    IN  IF ~IsSome(sch) THEN Ok(None)
        ELSE IF IsOk(ty) THEN Ok(Some(ty.v)) ELSE ty

\* OperationDef.request_body (Ok of an Option)
request_body_of(schemas, ptr, e) ==
    IF ~IsSome(e.request_body) THEN Ok(None)
    ELSE LET b == Unwrap(e.request_body)
         IN  IF IsObject(b)
             THEN json_body_type(schemas,
                                 join_ptr(ptr, <<"request_body", "content",
                                                 "application/json", "schema">>),
                                 b)
             ELSE IF IsSome(find_schema(schemas, Unwrap(b.ref)))
             THEN Ok(Some(Unwrap(find_schema(schemas, Unwrap(b.ref))).name))
             ELSE Panic("reference should exist as schema", Unwrap(b.ref))

\* the entry of OperationDef.responses for one status code (Ok of an Option)
response_of(schemas, ptr, status_code, r_or_ref) ==
    IF IsObject(r_or_ref)
    THEN json_body_type(schemas,
                        join_ptr(ptr, <<"responses", status_code, "content",
                                        "application/json", "schema">>),
                        r_or_ref)
    ELSE LET found == find_schema(schemas, Unwrap(r_or_ref.ref))
         IN  Ok(IF IsSome(found) THEN Some(Unwrap(found).name) ELSE None)

\* OperationDef.responses: Ok of the map from status code, in key order, or the first panic
RECURSIVE responses_of(_, _, _, _)
responses_of(schemas, ptr, rs, acc) ==
    IF rs = <<>> THEN Ok(acc)
    ELSE LET one == response_of(schemas, ptr, Head(rs).name, Head(rs).value)
         IN  IF IsOk(one)
             THEN responses_of(schemas, ptr, Tail(rs), Append(acc, Entry(Head(rs).name, one.v)))
             ELSE one

\* OperationDef.response
response_name(operation_name, responses) ==
    IF Len(responses) = 1
    THEN (IF IsSome(responses[1].value) THEN Unwrap(responses[1].value) ELSE "()")
    ELSE operation_name \o "Response"

\* one iteration of the loop of operations(): Ok of the OperationDef, or the panic
operation_def(r, s, schemas, e) ==
    LET ptr == join_ptr(<<"paths">>, <<e.path, ToLowercase(e.method)>>)
        operation_name == renamer_name_operation(r, s, ptr)
        snake_name == Str(SnakeChars(renamer_name_operation_chars(r, s, ptr)))
        path == parse_path(<<>>, Chars(e.path))
        parameters == parameter_defs(r, s, schemas, ptr, Enumerate(e.parameters), <<>>)
        request_body == request_body_of(schemas, ptr, e)
        responses == responses_of(schemas, ptr, e.responses, <<>>)
    IN  IF ~IsOk(path) THEN path
        ELSE IF ~IsOk(parameters) THEN parameters
        ELSE IF ~IsOk(request_body) THEN request_body
        ELSE IF ~IsOk(responses) THEN responses
        ELSE Ok([name |-> snake_name,
                 method |-> e.method,
                 path |-> path.v,
                 parameters |-> parameters.v,
                 request_body |-> request_body.v,
                 response |-> response_name(operation_name, responses.v),
                 responses |-> responses.v])

\* OperationDef::path_params: the placeholders of the path, and whether each has its
\* (name, path) parameter (the expect of path_params fails otherwise)
PathPlaceholders(op) == {op.path[i].s : i \in {j \in DOMAIN op.path : op.path[j].kind = "Parameter"}}
path_params_ok(op) == \A x \in PathPlaceholders(op) : <<x, "path">> \in DOMAIN op.parameters

\* the value of a call that returned is handed on; a panic unwinds through the caller
AndThen(result, Continue(_)) == IF IsOk(result) THEN Continue(result.v) ELSE result

\* AnalysisResult::operations as one call: Ok of the vector of OperationDefs, or the
\* first panic
RECURSIVE operation_defs(_, _, _, _, _)
operation_defs(r, s, schemas, es, acc) ==
    IF es = <<>> THEN Ok(acc)
    ELSE AndThen(operation_def(r, s, schemas, Head(es)),
                 LAMBDA def : operation_defs(r, s, schemas, Tail(es), Append(acc, def)))

-----------------------------------------------------------------------------
(* TypesWriter.  An emitted definition is a record: a struct with its fields *)
(* or an enum with its variants, in the order the tokens are written.        *)

PropertyDef(n, json_name, ptype) == [name |-> n, json_name |-> json_name, ptype |-> ptype]
CompositeDef(index, schema_type) == [index |-> index, schema_type |-> schema_type]

StructDef(n, fields) == [kind |-> "struct", name |-> n, members |-> fields]
EnumDef(n, variants) == [kind |-> "enum", name |-> n, members |-> variants]

\* the words syn::parse_str::<syn::Ident> rejects, among the names of the model
Keywords == {"type", "ref", "in", "match"}

\* the CompositeDefs of the branches of one composite keyword, named at the
\* pointers below token: Ok of the sequence, or the first panic
RECURSIVE composite_defs(_, _, _, _, _)
composite_defs(schemas, location, token, ibranches, acc) ==
    IF ibranches = <<>> THEN Ok(acc)
    ELSE LET idx == Head(ibranches).index
             ty == analysis_name_type(schemas,
                                      join_ptr(location, <<token, ToStringNat(idx)>>),
                                      Head(ibranches).value)
         IN  IF IsOk(ty)
             THEN composite_defs(schemas, location, token, Tail(ibranches),
                                 Append(acc, CompositeDef(idx, ty.v)))
             ELSE ty

\* the fields of the struct of an anyOf (optional) or allOf composite
FlattenedFields(defs, optional) ==
    [k \in DOMAIN defs |->
        [name |-> "v" \o ToStringNat(defs[k].index),
         flatten |-> TRUE,
         ptype |-> IF optional THEN "Option<" \o defs[k].schema_type \o ">"
                   ELSE defs[k].schema_type]]

\* the variants of the untagged enum of a oneOf composite
Variants(defs) ==
    [k \in DOMAIN defs |->
        [name |-> "V" \o ToStringNat(defs[k].index), payload |-> Some(defs[k].schema_type)]]

\* TypesWriter::write_composite_to_tokens
write_composite_to_tokens(schemas, ty, sch) ==
    IF sch.any_of # <<>>
    THEN LET defs == composite_defs(schemas, ty.location, "anyOf", Enumerate(sch.any_of), <<>>)
         IN  IF IsOk(defs) THEN Ok(StructDef(ty.name, FlattenedFields(defs.v, TRUE))) ELSE defs
    ELSE IF sch.all_of # <<>>
    THEN LET defs == composite_defs(schemas, ty.location, "allOf", Enumerate(sch.all_of), <<>>)
         IN  IF IsOk(defs) THEN Ok(StructDef(ty.name, FlattenedFields(defs.v, FALSE))) ELSE defs
    ELSE LET defs == composite_defs(schemas, ty.location, "allOf", Enumerate(sch.one_of), <<>>)
         IN  IF IsOk(defs) THEN Ok(EnumDef(ty.name, Variants(defs.v))) ELSE defs

\* property_defs with the test of the required list inverted: the required
\* properties are the ones wrapped
RECURSIVE property_defs_wraps_required(_, _, _, _, _, _)
property_defs_wraps_required(r, schemas, location, required, props, acc) ==
    IF props = <<>> THEN Ok(acc)
    ELSE LET json_name == Head(props).name
             field_type == analysis_name_type(schemas,
                                              join_ptr(location, <<"properties", json_name>>),
                                              Head(props).schema)
             ptype == IF json_name \notin required THEN field_type.v
                      ELSE "Option<" \o field_type.v \o ">"
             snake == renamer_name_property(r, json_name)
             name == IF snake \in Keywords THEN "r#" \o snake ELSE snake
         IN  IF IsOk(field_type)
             THEN property_defs_wraps_required(r, schemas, location, required, Tail(props),
                                               Append(acc, PropertyDef(name, json_name, ptype)))
             ELSE field_type

\* the closure of write_struct_to_tokens over the properties: Ok of the PropertyDefs,
\* or the first panic
RECURSIVE property_defs(_, _, _, _, _, _)
property_defs(r, schemas, location, required, props, acc) ==
    IF props = <<>> THEN Ok(acc)
    ELSE LET json_name == Head(props).name
             field_type == analysis_name_type(schemas,
                                              join_ptr(location, <<"properties", json_name>>),
                                              Head(props).schema)
             ptype == IF json_name \in required THEN field_type.v
                      ELSE "Option<" \o field_type.v \o ">"
             snake == renamer_name_property(r, json_name)
             name == IF snake \in Keywords THEN "r#" \o snake ELSE snake
         IN  IF IsOk(field_type)
             THEN property_defs(r, schemas, location, required, Tail(props),
                                Append(acc, PropertyDef(name, json_name, ptype)))
             ELSE field_type

\* TypesWriter::write_struct_to_tokens
write_struct_to_tokens(r, schemas, ty, sch) ==
    LET properties == property_defs(r, schemas, ty.location, sch.required, sch.properties, <<>>)
    IN  IF IsOk(properties) THEN Ok(StructDef(ty.name, properties.v)) ELSE properties

\* TypesWriter::write_type_to_tokens: Ok of the definitions appended (none for an
\* unsupported schema), or the panic
write_type_to_tokens(r, schemas, ty, sch) ==
    IF IsObject(sch) /\ IsComposite(sch)
    THEN LET def == write_composite_to_tokens(schemas, ty, sch)
         IN  IF IsOk(def) THEN Ok(<<def.v>>) ELSE def
    ELSE IF IsObject(sch) /\ sch.schema_type = "object"
    THEN LET def == write_struct_to_tokens(r, schemas, ty, sch)
         IN  IF IsOk(def) THEN Ok(<<def.v>>) ELSE def
    ELSE Ok(<<>>)

\* the first loop of TypesWriter::write, over analysis.schemas()
RECURSIVE write_types(_, _, _, _, _)
write_types(r, s, schemas, todo, acc) ==
    IF todo = <<>> THEN Ok(acc)
    ELSE IF ~IsSome(Resolve(s, Head(todo).location))
    THEN Panic("types to check should be resolvable", Head(todo).location)
    ELSE AndThen(write_type_to_tokens(r, schemas, Head(todo),
                                      Unwrap(Resolve(s, Head(todo).location))),
                 LAMBDA defs : write_types(r, s, schemas, Tail(todo), acc \o defs))

\* the envelope enum of an operation with more than one response
ResponseEnum(o) ==
    EnumDef(o.response,
            [k \in DOMAIN o.responses |->
                [name |-> "S" \o o.responses[k].name, payload |-> o.responses[k].value]])

\* the second loop of TypesWriter::write, over analysis.operations()
write_response_enums(ops) ==
    FlatMap(LAMBDA o : IF Len(o.responses) > 1 THEN <<ResponseEnum(o)>> ELSE <<>>, ops)

\* TypesWriter::write: Ok of the definitions emitted, or the panic
types_write(r, s, schemas) ==
    AndThen(write_types(r, s, schemas, schemas, <<>>),
            LAMBDA defs : AndThen(operation_defs(r, s, schemas, s.paths, <<>>),
                                  LAMBDA ops : Ok(defs \o write_response_enums(ops))))

-----------------------------------------------------------------------------
(* ClientWriter.  A generated method is a record of what its tokens do: the   *)
(* arms of its match on the status code in order, each a pattern and the      *)
(* result the arm returns.                                                    *)

\* OperationDef::has_default_response
has_default_response(o) == \E k \in DOMAIN o.responses : o.responses[k].name = "default"

\* OperationDef::has_any_response_body
has_any_response_body(o) == \E k \in DOMAIN o.responses : IsSome(o.responses[k].value)

\* OperationDef::path_params: Ok of the path parameters in path order, or the panic
\* of its expect
RECURSIVE path_params(_, _, _)
path_params(o, path, acc) ==
    IF path = <<>> THEN Ok(acc)
    ELSE IF Head(path).kind # "Parameter" THEN path_params(o, Tail(path), acc)
    ELSE IF <<Head(path).s, "path">> \in DOMAIN o.parameters
    THEN path_params(o, Tail(path), Append(acc, o.parameters[<<Head(path).s, "path">>]))
    ELSE Panic("path parameter should exist", <<>>)

\* ClientWriter::write_operation_function_signature
write_operation_function_signature(o) ==
    LET params == path_params(o, o.path, <<>>)
    IN  IF IsOk(params)
        THEN Ok([name |-> o.name, path_params |-> params.v, body |-> o.request_body,
                 returns |-> o.response])
        ELSE params

\* ClientWriter::write_awc_path: the format string of the url
RECURSIVE write_awc_path(_, _)
write_awc_path(path, memo) ==
    IF path = <<>> THEN memo
    ELSE write_awc_path(Tail(path),
                        IF Head(path).kind = "Segment" THEN memo \o "/" \o Head(path).s
                        ELSE memo \o "/{}")

\* the value of a string of digits
RECURSIVE DigitsValue(_, _)
DigitsValue(cs, acc) ==
    IF cs = <<>> THEN acc
    ELSE DigitsValue(Tail(cs),
                     10 * acc + (CHOOSE d \in 0..9 : Digits[d + 1] = Head(cs)))

\* str::parse::<u16> (Option): digits after an optional plus sign, at most 65535
parse_u16(str) ==
    LET cs == Chars(str)
        ds == IF cs # <<>> /\ Head(cs) = "+" THEN Tail(cs) ELSE cs
    IN  IF ds # <<>> /\ (\A k \in DOMAIN ds : IsDigit(ds[k])) /\ DigitsValue(ds, 0) <= 65535
        THEN Some(DigitsValue(ds, 0))
        ELSE None

\* a pattern of the generated match: a status code, or the wildcard
CodePattern(code) == [wildcard |-> FALSE, code |-> code]
Wildcard == [wildcard |-> TRUE, code |-> 0]

\* what an arm returns: Ok of unit, of the deserialized body, of an envelope variant
\* (with the deserialized body as payload when it has one), or Err(UnexpectedResponse)
OkUnit == [result |-> "Ok", value |-> "()", body |-> None]
OkBody(ty) == [result |-> "Ok", value |-> "body", body |-> Some(ty)]
OkVariant(envelope, status_code, payload) ==
    [result |-> "Ok", value |-> envelope \o "::S" \o status_code, body |-> payload]
ErrUnexpectedResponse == [result |-> "Err", value |-> "UnexpectedResponse", body |-> None]

\* write_awc_response_handler with `_` as the pattern of every status code
write_awc_response_handler_any_status(operation, status_code, response) ==
    Ok([pattern |-> Wildcard,
        arm |-> IF Len(operation.responses) = 1
                THEN (IF operation.response = "()" THEN OkUnit ELSE OkBody(operation.response))
                ELSE OkVariant(operation.response, status_code, response)])

\* ClientWriter::write_awc_response_handler: Ok of the arm, or the panic
write_awc_response_handler(operation, status_code, response) ==
    LET match_arm == IF Len(operation.responses) = 1
                     THEN (IF operation.response = "()" THEN OkUnit
                           ELSE OkBody(operation.response))
                     ELSE OkVariant(operation.response, status_code, response)
    IN  IF IsSome(parse_u16(status_code))
        THEN Ok([pattern |-> CodePattern(Unwrap(parse_u16(status_code))), arm |-> match_arm])
        ELSE IF status_code = "default"
        THEN Ok([pattern |-> Wildcard, arm |-> match_arm])
        ELSE Panic("could not parse status code", <<>>)

\* the arms of the declared responses, in key order: Ok of the sequence, or the
\* first panic
RECURSIVE response_arms(_, _, _)
response_arms(o, rs, acc) ==
    IF rs = <<>> THEN Ok(acc)
    ELSE LET arm == write_awc_response_handler(o, Head(rs).name, Head(rs).value)
         IN  IF IsOk(arm) THEN response_arms(o, Tail(rs), Append(acc, arm.v)) ELSE arm

\* fallback_arm without the test of has_default_response: no arm is appended
fallback_arm_never(o) == <<>>

\* the arm write_awc_client appends when the operation declares no default response
fallback_arm(o) ==
    IF ~has_default_response(o)
    THEN <<[pattern |-> Wildcard, arm |-> ErrUnexpectedResponse]>>
    ELSE <<>>

\* the method write_awc_client emits for one operation: Ok of the method, or the panic
awc_method(o) ==
    LET signature == write_operation_function_signature(o)
        arms == response_arms(o, o.responses, <<>>)
    IN  IF ~IsOk(signature) THEN signature
        ELSE IF ~IsOk(arms) THEN arms
        ELSE Ok([signature |-> signature.v,
                 method |-> o.method,
                 url |-> write_awc_path(o.path, "{}"),
                 send_json |-> IsSome(o.request_body),
                 arms |-> arms.v \o fallback_arm(o)])

RECURSIVE awc_methods(_, _)
awc_methods(ops, acc) ==
    IF ops = <<>> THEN Ok(acc)
    ELSE AndThen(awc_method(Head(ops)), LAMBDA m : awc_methods(Tail(ops), Append(acc, m)))

\* ClientWriter::write: Ok of the methods of impl Client for AwcClient, or the panic
client_write(r, s, schemas) ==
    AndThen(operation_defs(r, s, schemas, s.paths, <<>>), LAMBDA ops : awc_methods(ops, <<>>))

\* the generated match on res.status().as_u16(): the first arm whose pattern the
\* status matches (Option: a match without such an arm is not exhaustive)
RECURSIVE matching_arm(_, _)
matching_arm(arms, status) ==
    IF arms = <<>> THEN None
    ELSE IF Head(arms).pattern.wildcard \/ Head(arms).pattern.code = status
    THEN Some(Head(arms))
    ELSE matching_arm(Tail(arms), status)

-----------------------------------------------------------------------------
(* ServerWriter.  The generated dispatcher is the sequence of its branches,   *)
(* one per operation, grouped by path in the order of the BTreeMap.           *)

\* the characters of the model in the order of their code points
Ascii == <<"+", "-", "/">> \o Digits \o Uppers \o <<"_">> \o Lowers \o <<"{", "}", "~">>

CodePoint(c) == CHOOSE k \in DOMAIN Ascii : Ascii[k] = c

\* Ord of String on characters: a < b
RECURSIVE CharsLess(_, _)
CharsLess(a, b) ==
    IF b = <<>> THEN FALSE
    ELSE IF a = <<>> THEN TRUE
    ELSE IF Head(a) # Head(b) THEN CodePoint(Head(a)) < CodePoint(Head(b))
    ELSE CharsLess(Tail(a), Tail(b))

\* derive(Ord) of SegmentOrParameter: Segment before Parameter, then the strings
ElementLess(x, y, xs, ys) ==
    IF x.kind # y.kind THEN x.kind = "Segment" ELSE CharsLess(xs, ys)

\* the characters of the elements of a parsed path, as parse_path collects them
RECURSIVE path_chars(_, _)
path_chars(memo, cs) ==
    IF cs = <<>> THEN memo
    ELSE LET c == Head(cs)
         IN  IF c = "/" THEN path_chars(IF memo # <<>> THEN Append(memo, <<>>) ELSE memo, Tail(cs))
             ELSE IF c \in {"{", "}"} THEN path_chars(memo, Tail(cs))
             ELSE IF memo = <<>> THEN path_chars(<<<<c>>>>, Tail(cs))
             ELSE path_chars(Append(Pop(memo), Append(Last(memo), c)), Tail(cs))

\* Ord of Vec<SegmentOrParameter>: lexicographic, a prefix first
RECURSIVE PathLess(_, _, _, _)
PathLess(p, q, pcs, qcs) ==
    IF q = <<>> THEN FALSE
    ELSE IF p = <<>> THEN TRUE
    ELSE IF Head(p) # Head(q) THEN ElementLess(Head(p), Head(q), Head(pcs), Head(qcs))
    ELSE PathLess(Tail(p), Tail(q), Tail(pcs), Tail(qcs))

\* str::parse::<u16>().unwrap_or(200): a slip of the fallback status
status_or_200(status_code) ==
    IF IsSome(parse_u16(status_code)) THEN Unwrap(parse_u16(status_code)) ELSE 200

\* status_code.parse().unwrap_or(500)
status_or_500(status_code) ==
    IF IsSome(parse_u16(status_code)) THEN Unwrap(parse_u16(status_code)) ELSE 500

\* the HTTP response a branch builds: its status and what .json serializes, the
\* variable `body` bound where the response is built (None for .finish())
HttpResponse(status, body) == [status |-> status, body |-> body]

\* match_responses with arms that build the response and do not return it
match_responses_without_return(operation) ==
    IF Len(operation.responses) = 1
    THEN [single |-> TRUE,
          arms |-> <<[variant |-> "", returns |-> FALSE,
                      response |-> HttpResponse(status_or_500(operation.responses[1].name),
                                                IF operation.response = "()" THEN None
                                                ELSE Some("request payload"))]>>]
    ELSE [single |-> FALSE,
          arms |-> [k \in DOMAIN operation.responses |->
                       [variant |-> operation.response \o "::S" \o operation.responses[k].name,
                        returns |-> FALSE,
                        response |-> HttpResponse(status_or_500(operation.responses[k].name),
                                                  IF IsSome(operation.responses[k].value)
                                                  THEN Some("variant payload")
                                                  ELSE None)]]]

\* ServerWriter::match_responses.  For a single response `body` is the variable
\* of the dispatcher, the request payload (deserialized when the operation has a
\* request body); in a match arm it is the payload the pattern binds.  Every arm
\* is a `return Ok(...)`.
match_responses(operation) ==
    IF Len(operation.responses) = 1
    THEN [single |-> TRUE,
          arms |-> <<[variant |-> "", returns |-> TRUE,
                      response |-> HttpResponse(status_or_500(operation.responses[1].name),
                                                IF operation.response = "()" THEN None
                                                ELSE Some("request payload"))]>>]
    ELSE [single |-> FALSE,
          arms |-> [k \in DOMAIN operation.responses |->
                       [variant |-> operation.response \o "::S" \o operation.responses[k].name,
                        returns |-> TRUE,
                        response |-> HttpResponse(status_or_500(operation.responses[k].name),
                                                  IF IsSome(operation.responses[k].value)
                                                  THEN Some("variant payload")
                                                  ELSE None)]]]

\* the branch of the dispatcher for one operation: Ok of the branch, or the panic of
\* path_params
server_branch(o) ==
    LET params == path_params(o, o.path, <<>>)
    IN  IF IsOk(params)
        THEN Ok([path |-> o.path, method |-> o.method, path_params |-> params.v,
                 body |-> o.request_body, handler |-> o.name,
                 responses |-> match_responses(o)])
        ELSE params

\* the fold into operations_by_path: the operations in the order of their paths,
\* those of one path in the order of operations()
RECURSIVE operations_by_path(_, _, _)
operations_by_path(s, ops, acc) ==
    IF ops = <<>> THEN acc
    ELSE LET o == Head(ops)
             e == s.paths[Len(s.paths) - Len(ops) + 1]
             tagged == [op |-> o, chars |-> path_chars(<<>>, Chars(e.path))]
             before == {k \in DOMAIN acc :
                           ~PathLess(o.path, acc[k].op.path, tagged.chars, acc[k].chars)}
             n == Cardinality(before)
         IN  operations_by_path(s, Tail(ops),
                                SubSeq(acc, 1, n) \o <<tagged>> \o SubSeq(acc, n + 1, Len(acc)))

RECURSIVE server_branches(_, _)
server_branches(tagged, acc) ==
    IF tagged = <<>> THEN Ok(acc)
    ELSE AndThen(server_branch(Head(tagged).op),
                 LAMBDA b : server_branches(Tail(tagged), Append(acc, b)))

\* ServerWriter::write: Ok of the branches of handler, or the panic
server_write(r, s, schemas) ==
    AndThen(operation_defs(r, s, schemas, s.paths, <<>>),
            LAMBDA ops :
                IF \E k \in DOMAIN ops : ~IsOk(write_operation_function_signature(ops[k]))
                THEN Panic("path parameter should exist", <<>>)
                ELSE server_branches(operations_by_path(s, ops, <<>>), <<>>))

\* format!(url, self.base_url, path parameters...) of a generated method: the
\* characters after the base url, with the value v in every placeholder
RECURSIVE format_url(_, _, _)
format_url(path, chars, v) ==
    IF path = <<>> THEN <<>>
    ELSE <<"/">> \o (IF Head(path).kind = "Segment" THEN Head(chars) ELSE v)
             \o format_url(Tail(path), Tail(chars), v)

\* the path of the request a generated method sends for the operation e: what it
\* formats after the base url, and "/" when that is empty
client_request(e, v) ==
    LET url == format_url(parse_path(<<>>, Chars(e.path)).v,
                          path_chars(<<>>, Chars(e.path)), v)
    IN  IF url = <<>> THEN <<"/">> ELSE url

\* str::split('/'): the pieces between the separators, the last one in the making
RECURSIVE split(_, _)
split(cs, acc) ==
    IF cs = <<>> THEN acc
    ELSE IF Head(cs) = "/" THEN split(Tail(cs), Append(acc, <<>>))
    ELSE split(Tail(cs), Append(Pop(acc), Append(Last(acc), Head(cs))))

\* req.path().split('/').skip(1).collect()
request_segments(cs) == Tail(split(cs, <<<<>>>>))

\* the slice pattern get_operation_path_match emits matches the segments of a
\* request: as many elements, a literal matches the same text, a binding matches
\* any segment
PatternMatches(pattern, segments) ==
    /\ Len(pattern) = Len(segments)
    /\ \A k \in DOMAIN pattern :
           pattern[k].kind = "Segment" => pattern[k].s = Str(segments[k])

\* the local variables a matching slice pattern binds, in path order
RECURSIVE bound_variables(_, _)
bound_variables(pattern, segments) ==
    IF pattern = <<>> THEN <<>>
    ELSE (IF Head(pattern).kind = "Parameter"
          THEN <<[ident |-> Head(pattern).s, value |-> Head(segments)]>>
          ELSE <<>>) \o bound_variables(Tail(pattern), Tail(segments))

\* the branch of the dispatcher that serves a request (Option): the first whose
\* pattern and method match; the dispatcher reaches todo!() without one
RECURSIVE dispatch(_, _, _)
dispatch(branches, segments, method) ==
    IF branches = <<>> THEN None
    ELSE IF PatternMatches(Head(branches).path, segments) /\ Head(branches).method = method
    THEN Some(Head(branches))
    ELSE dispatch(Tail(branches), segments, method)

\* the generated handler runs on a request: it tries the branches in order; a
\* branch whose pattern and method match calls its handler, which fails (no k-th
\* response: expect aborts) or returns its k-th response, and the arm for it
\* builds the HTTP response and returns it; past the last branch is todo!()
RECURSIVE serve(_, _, _, _, _, _)
serve(i, branches, segments, method, k, invoked) ==
    IF branches = <<>>
    THEN [of |-> "dispatcher", index |-> i, request |-> segments, invoked |-> invoked,
          panic |-> "not yet implemented"]
    ELSE IF ~(PatternMatches(Head(branches).path, segments) /\ Head(branches).method = method)
    THEN serve(i, Tail(branches), segments, method, k, invoked)
    ELSE IF k \notin DOMAIN Head(branches).responses.arms
    THEN [of |-> "dispatcher", index |-> i, request |-> segments,
          invoked |-> Append(invoked, Head(branches).handler), panic |-> "should execute"]
    ELSE IF Head(branches).responses.arms[k].returns
    THEN [of |-> "server", index |-> i, request |-> segments,
          invoked |-> Append(invoked, Head(branches).handler),
          handler |-> Head(branches).handler,
          bound |-> bound_variables(Head(branches).path, segments),
          variant |-> Head(branches).responses.arms[k].variant,
          result |-> Head(branches).responses.arms[k].response]
    ELSE serve(i, Tail(branches), segments, method, k, Append(invoked, Head(branches).handler))

-----------------------------------------------------------------------------
(* The input specs the model runs the Analyzer on *)

MaxDepth == 2     \* nesting depth of the schemas placed in a spec
MaxParams == 2    \* parameters declared on the operation under test
MaxOperations == 4    \* operations of a spec the generated code is run for
MaxResponses == 2     \* responses of an operation the handler chooses among

\* the status codes a generated client method receives
Statuses == {200, 204, 404}

\* the values a generated client method is given for a path parameter, as
\* characters: text without '/'
PathValues == {<<"7">>, <<"4", "2">>}

PetPtr == <<"components", "schemas", "Pet">>
PetsPtr == <<"components", "schemas", "Pets">>
IdPtr == <<"components", "schemas", "Id">>
MissingPtr == <<"components", "schemas", "Missing">>

String == Schema("string")
Int32 == WithFormat(Schema("integer"), "int32")
Untyped == Schema("none")
OneOf(branches) == [Schema("none") EXCEPT !.one_of = branches]
AllOf(branches) == [Schema("none") EXCEPT !.all_of = branches]
AnyOf(branches) == [Schema("none") EXCEPT !.any_of = branches]

PetSchema == ObjectSchema(<<Property("name", String), Property("tag", Nullable(String))>>,
                          {"name"})
ErrSchema == ObjectSchema(<<Property("code", Int32)>>, {"code"})
FilterSchema == ObjectSchema(<<Property("tag", String)>>, {})

LeafSchemas ==
    { String, Nullable(String), Nullable(Untyped),
      SchemaRef(PetPtr), SchemaRef(PetsPtr), SchemaRef(MissingPtr),
      Nullable(ObjectSchema(<<>>, {})), Nullable(ArraySchema(None)),
      Nullable(AnyOf(<<SchemaRef(PetPtr)>>)), AllOf(<<SchemaRef(PetPtr), FilterSchema>>) }

\* the schemas nested at most d deep
RECURSIVE Schemas(_)
Schemas(d) ==
    IF d = 0 THEN LeafSchemas
    ELSE LET inner == Schemas(d - 1)
         IN  LeafSchemas
             \cup {ObjectSchema(<<Property("tag", x)>>, {}) : x \in inner}
             \cup {ArraySchema(Some(x)) : x \in inner}
             \cup {OneOf(<<x, SchemaRef(PetPtr)>>) : x \in inner}

SlotSchemas == Schemas(MaxDepth)
ShallowSchemas == Schemas(MaxDepth - 1)

JsonContent(sch) == <<MediaType("application/json", Some(sch))>>


\* the components of every input, around the schema of Thing, of the Err response,
\* of the filter parameter and of the NewPet request body
Components(thing, err, filter, newpet) ==
    [schemas |-> <<Entry("Id", Schema("integer")), Entry("Pet", PetSchema),
                   Entry("Pets", ArraySchema(Some(SchemaRef(PetPtr)))),
                   Entry("Thing", thing)>>,
     responses |-> <<Entry("Err", Body(JsonContent(err))), Entry("Gone", Body(<<>>))>>,
     parameters |-> <<Entry("filter", Parameter("filter", "query", Some(filter))),
                      Entry("limit", Parameter("limit", "query", Some(Int32)))>>,
     request_bodies |-> <<Entry("NewPet", Body(JsonContent(newpet)))>>]

BaseComponents == Components(String, ErrSchema, FilterSchema, PetSchema)

Operation(path, method, id, params, body, resps) ==
    [path |-> path, method |-> method, operation_id |-> id, parameters |-> params,
     request_body |-> body, responses |-> resps]

IdParameter == Parameter("id", "path", Some(Schema("integer")))
PetIdParameter == Parameter("petId", "path", Some(Schema("integer")))

\* inputs that place one schema of SlotSchemas or ShallowSchemas at one place of the spec
SchemaInputs ==
    {[components |-> Components(x, ErrSchema, FilterSchema, PetSchema), paths |-> <<>>]
        : x \in SlotSchemas}
    \cup {[components |-> Components(String, x, FilterSchema, PetSchema), paths |-> <<>>]
        : x \in ShallowSchemas}
    \cup {[components |-> Components(String, ErrSchema, x, PetSchema), paths |-> <<>>]
        : x \in {y \in ShallowSchemas : IsObject(y)}}
    \cup {[components |-> Components(String, ErrSchema, FilterSchema, x), paths |-> <<>>]
        : x \in ShallowSchemas}
    \cup {[components |-> BaseComponents,
           paths |-> <<Operation("/pets", "POST", None,
                                 <<Parameter("filter", "query", Some(x))>>, None,
                                 <<Entry("200", Body(<<>>))>>)>>]
        : x \in {y \in ShallowSchemas : IsObject(y)}}
    \cup {[components |-> BaseComponents,
           paths |-> <<Operation("/pets", "POST", None, <<>>, Some(Body(JsonContent(x))),
                                 <<Entry("200", Body(<<>>))>>)>>]
        : x \in SlotSchemas}
    \cup {[components |-> BaseComponents,
           paths |-> <<Operation("/pets", "GET", None, <<>>, None,
                                 <<Entry("200", Body(JsonContent(x)))>>)>>]
        : x \in SlotSchemas}

ParameterChoices ==
    { IdParameter,
      Parameter("filter", "query", Some(FilterSchema)),
      Parameter("petId", "path", None),
      ParameterRef(<<"components", "parameters", "limit">>),
      ParameterRef(<<"components", "parameters", "filter">>) }

\* the sequences over S of length at most n
RECURSIVE SeqsUpTo(_, _)
SeqsUpTo(S, n) ==
    IF n = 0 THEN {<<>>}
    ELSE LET shorter == SeqsUpTo(S, n - 1)
         IN  shorter \cup {Append(q, x) : q \in shorter, x \in S}

RequestBodyChoices ==
    { None,
      Some(Body(JsonContent(PetSchema))),
      Some(Body(JsonContent(OneOf(<<SchemaRef(PetPtr), String>>)))),
      Some(Body(JsonContent(SchemaRef(PetPtr)))),
      Some(Body(<<MediaType("text/plain", Some(String))>>)),
      Some(BodyRef(<<"components", "requestBodies", "NewPet">>)) }

OkResponseChoices ==
    { None,
      Some(Body(<<>>)),
      Some(Body(JsonContent(PetSchema))),
      Some(Body(JsonContent(SchemaRef(PetsPtr)))),
      Some(BodyRef(<<"components", "responses", "Err">>)),
      Some(BodyRef(<<"components", "responses", "Gone">>)) }

DefaultResponseChoices ==
    { None,
      Some(Body(JsonContent(SchemaRef(PetPtr)))),
      Some(BodyRef(<<"components", "responses", "Err">>)) }

Responses(ok, default) ==
    (IF IsSome(ok) THEN <<Entry("200", Unwrap(ok))>> ELSE <<>>)
    \o (IF IsSome(default) THEN <<Entry("default", Unwrap(default))>> ELSE <<>>)

\* inputs with one operation, over the shapes of its parameters, request body and responses
OperationInputs ==
    {[components |-> BaseComponents,
      paths |-> <<Operation(path, "GET", id, params, None, <<Entry("200", Body(<<>>))>>)>>]
        : path \in {"/pets", "/pets/{id}"}, id \in {None, Some("findPets")},
          params \in SeqsUpTo(ParameterChoices, MaxParams)}
    \cup {[components |-> BaseComponents,
           paths |-> <<Operation("/pets", "POST", id, <<>>, body, Responses(ok, default))>>]
        : id \in {None, Some("findPets")}, body \in RequestBodyChoices,
          ok \in OkResponseChoices, default \in DefaultResponseChoices}

\* the operations of the petstore example
Petstore ==
    [components |-> BaseComponents,
     paths |-> <<Operation("/pets", "GET", Some("findPets"), <<>>, None,
                           Responses(Some(Body(JsonContent(ArraySchema(Some(SchemaRef(PetPtr)))))),
                                     Some(BodyRef(<<"components", "responses", "Err">>)))),
                 Operation("/pets", "POST", None, <<>>,
                           Some(Body(JsonContent(SchemaRef(PetPtr)))),
                           Responses(Some(Body(JsonContent(SchemaRef(PetPtr)))), None)),
                 Operation("/pets/{id}", "DELETE", None, <<IdParameter>>, None,
                           <<Entry("204", Body(<<>>))>>),
                 Operation("/pets/{id}", "GET", None, <<IdParameter>>, None,
                           Responses(Some(Body(JsonContent(SchemaRef(PetPtr)))),
                                     Some(Body(JsonContent(SchemaRef(PetPtr))))))>>]

\* paths whose segments are literals or placeholders, and paths with unbalanced braces
WellFormedPaths == {"/", "/pets", "/pets/{id}", "/{id}", "/{id}/pets", "/pets/{id}/tag"}
UnbalancedPaths == {"/pets/{id", "/pets/id}", "/pets/{id}}"}

\* inputs with one operation on each of these paths
PathInputs ==
    {[components |-> BaseComponents,
      paths |-> <<Operation(path, "GET", None, <<IdParameter>>, None,
                            <<Entry("200", Body(<<>>))>>)>>]
        : path \in WellFormedPaths \cup UnbalancedPaths}
    \cup {[components |-> BaseComponents,
           paths |-> <<Operation("/pets/{petId}", "GET", None, <<PetIdParameter>>, None,
                                 <<Entry("200", Body(<<>>))>>)>>]}

ThingPtr == <<"components", "schemas", "Thing">>

\* inputs whose schemas refer to themselves or to each other through $ref
RecursiveInputs ==
    { [components |-> Components(ObjectSchema(<<Property("tag", SchemaRef(ThingPtr))>>, {}),
                                 ErrSchema, FilterSchema, PetSchema),
       paths |-> <<>>],
      [components |-> Components(ArraySchema(Some(ArraySchema(Some(SchemaRef(ThingPtr))))),
                                 ErrSchema, FilterSchema, PetSchema),
       paths |-> <<>>],
      [components |->
           [BaseComponents EXCEPT !.schemas =
               <<Entry("Pet", ObjectSchema(<<Property("name", String),
                                             Property("tag", SchemaRef(ThingPtr))>>, {"name"})),
                 Entry("Thing", OneOf(<<SchemaRef(PetPtr),
                                        ObjectSchema(<<Property("tag", SchemaRef(ThingPtr))>>,
                                                     {})>>))>>],
       paths |-> <<>>] }

\* an object schema that is also a composite: allOf beside properties
MixedSchema ==
    [ObjectSchema(<<Property("tag", ObjectSchema(<<Property("code", Int32)>>, {}))>>, {})
        EXCEPT !.all_of = <<SchemaRef(PetPtr)>>]

MixedInputs ==
    {[components |-> Components(MixedSchema, ErrSchema, FilterSchema, PetSchema), paths |-> <<>>]}

\* operations of two paths in turn, and two paths with the same segment pattern
Interleaved ==
    [components |-> BaseComponents,
     paths |-> <<Operation("/pets/{id}", "GET", None, <<IdParameter>>, None,
                           <<Entry("200", Body(<<>>))>>),
                 Operation("/pets", "GET", None, <<>>, None, <<Entry("200", Body(<<>>))>>),
                 Operation("/pets/{id}", "DELETE", None, <<IdParameter>>, None,
                           <<Entry("204", Body(<<>>))>>),
                 Operation("/pets/{petId}", "GET", None, <<PetIdParameter>>, None,
                           <<Entry("200", Body(<<>>))>>)>>]

Inputs ==
    SchemaInputs \cup OperationInputs \cup PathInputs \cup RecursiveInputs \cup MixedInputs
    \cup {Petstore, Interleaved}

NoSpec == [components |-> [schemas |-> <<>>, responses |-> <<>>, parameters |-> <<>>,
                           request_bodies |-> <<>>],
           paths |-> <<>>]

\* an input text, by what the deserializer makes of it: the Spec it holds, or
\* the message of the parser's error
Json(s) == [spec |-> s, error |-> ""]
Malformed(message) == [spec |-> NoSpec, error |-> message]

\* texts that are no Spec: an empty text, and a document with a `$ref` that is
\* not a string
InvalidTexts == { Malformed("EOF while parsing a value at line 1 column 0"),
                  Malformed("$ref is not of type string") }

Texts == {Json(s) : s \in Inputs} \cup InvalidTexts

\* AnalysisError::Deserialization(serde_json::Error)
Deserialization(message) == [kind |-> "Deserialization", message |-> message]

\* Result<Spec, AnalysisError>
SpecOk(s) == [is_ok |-> TRUE, v |-> s, e |-> [kind |-> "", message |-> ""]]
SpecErr(e) == [is_ok |-> FALSE, v |-> NoSpec, e |-> e]

\* serde_json::de::from_str(spec).unwrap_or_default(): a text that is no Spec is
\* taken for the empty Spec
from_str_or_default(text) == SpecOk(text.spec)

\* serde_json::de::from_str(spec).map_err(AnalysisError::Deserialization)
from_str_map_err(text) ==
    IF text.error = "" THEN SpecOk(text.spec) ELSE SpecErr(Deserialization(text.error))

-----------------------------------------------------------------------------
(* The program *)

NoAbort == [msg |-> "", at |-> <<>>]
NoError == [kind |-> "", message |-> ""]
NoReply == [of |-> "none"]

Init ==
    /\ pc = "new"
    /\ input = Json(NoSpec)
    /\ renamer = "default"
    /\ spec = NoSpec
    /\ types_to_check = <<>>
    /\ collected_types = <<>>
    /\ op_index = 0
    /\ operations = <<>>
    /\ abort = NoAbort
    /\ error = NoError
    /\ types = <<>>
    /\ client = <<>>
    /\ server = <<>>
    /\ files = {}
    /\ reply = NoReply

\* Analyzer::with_renamer
WithRenamer(r) ==
    /\ pc = "new"
    /\ renamer' = r
    /\ UNCHANGED <<pc, spec, types_to_check, collected_types, op_index, operations, abort>>
    /\ UNCHANGED <<input, output_vars>>

\* Analyzer::run up to the work-list loop: the text is deserialized and the seeds
\* collected, or run returns the error of the deserialization
Run(text) ==
    /\ pc = "new"
    /\ input' = text
    /\ IF from_str_map_err(text).is_ok
       THEN /\ spec' = from_str_map_err(text).v
            /\ types_to_check' = collect_initial_types_to_generate(from_str_map_err(text).v)
            /\ collected_types' = <<>>
            /\ pc' = "collect"
            /\ UNCHANGED error
       ELSE /\ error' = from_str_map_err(text).e
            /\ pc' = "failed"
            /\ UNCHANGED <<spec, types_to_check, collected_types>>
    /\ UNCHANGED <<renamer, op_index, operations, abort>>
    /\ UNCHANGED <<types, client, server, files, reply>>

\* one iteration of the work-list loop of collect_types_to_generate
CollectStep ==
    /\ pc = "collect"
    /\ types_to_check # <<>>
    /\ LET type_ptr == Last(types_to_check)
           node == Resolve(spec, type_ptr)
       IN  IF ~IsSome(node)
           THEN /\ pc' = "aborted"
                /\ abort' = [msg |-> "types to check should be resolvable", at |-> type_ptr]
                /\ UNCHANGED <<types_to_check, collected_types>>
           ELSE IF collected_of(renamer, spec, type_ptr, Unwrap(node)) # <<>>
                   /\ ~name_type_returns(type_ptr)
           THEN /\ pc' = "aborted"
                /\ abort' = [msg |-> "should be unreachable", at |-> type_ptr]
                /\ UNCHANGED <<types_to_check, collected_types>>
           ELSE /\ collected_types' =
                       collected_types \o collected_of(renamer, spec, type_ptr, Unwrap(node))
                /\ types_to_check' = Pop(types_to_check) \o pushed_of(type_ptr, Unwrap(node))
                /\ UNCHANGED <<pc, abort>>
    /\ UNCHANGED <<renamer, spec, op_index, operations>>
    /\ UNCHANGED <<input, output_vars>>

\* the work list is empty: run returns the AnalysisResult
RunReturn ==
    /\ pc = "collect"
    /\ types_to_check = <<>>
    /\ pc' = "ready"
    /\ UNCHANGED <<renamer, spec, types_to_check, collected_types, op_index, operations, abort>>
    /\ UNCHANGED <<input, output_vars>>

\* AnalysisResult::operations is called
OperationsCall ==
    /\ pc = "ready"
    /\ pc' = "operations"
    /\ op_index' = 1
    /\ operations' = <<>>
    /\ UNCHANGED <<renamer, spec, types_to_check, collected_types, abort>>
    /\ UNCHANGED <<input, output_vars>>

\* one iteration of the loop of operations()
OperationStep ==
    /\ pc = "operations"
    /\ op_index <= Len(spec.paths)
    /\ LET def == operation_def(renamer, spec, collected_types, spec.paths[op_index])
       IN  IF IsOk(def)
           THEN /\ operations' = Append(operations, def.v)
                /\ op_index' = op_index + 1
                /\ UNCHANGED <<pc, abort>>
           ELSE /\ pc' = "aborted"
                /\ abort' = [msg |-> def.panic, at |-> def.at]
                /\ UNCHANGED <<op_index, operations>>
    /\ UNCHANGED <<renamer, spec, types_to_check, collected_types>>
    /\ UNCHANGED <<input, output_vars>>

\* operations() returns its vector
OperationsReturn ==
    /\ pc = "operations"
    /\ op_index > Len(spec.paths)
    /\ pc' = "done"
    /\ UNCHANGED <<renamer, spec, types_to_check, collected_types, op_index, operations, abort>>
    /\ UNCHANGED <<input, output_vars>>

\* a panic ends the program
Abort(panic) ==
    /\ pc' = "aborted"
    /\ abort' = [msg |-> panic.panic, at |-> panic.at]

\* the artifact is kept, or the panic ends the build
TypesWriteReturns(written) ==
    IF IsOk(written)
    THEN /\ types' = written.v
         /\ pc' = "types_written"
         /\ UNCHANGED abort
    ELSE /\ Abort(written)
         /\ UNCHANGED types

\* the build driver calls TypesWriter::write on the AnalysisResult
TypesWrite ==
    /\ pc = "ready"
    /\ TypesWriteReturns(types_write(renamer, spec, collected_types))
    /\ UNCHANGED <<renamer, spec, types_to_check, collected_types, op_index, operations>>
    /\ UNCHANGED <<input, error, client, server, files, reply>>

\* the artifact is kept, or the panic ends the build
ClientWriteReturns(written) ==
    IF IsOk(written)
    THEN /\ client' = written.v
         /\ pc' = "client_written"
         /\ UNCHANGED abort
    ELSE /\ Abort(written)
         /\ UNCHANGED client

\* the build driver calls ClientWriter::write
ClientWrite ==
    /\ pc = "types_written"
    /\ ClientWriteReturns(client_write(renamer, spec, collected_types))
    /\ UNCHANGED <<renamer, spec, types_to_check, collected_types, op_index, operations>>
    /\ UNCHANGED <<input, error, types, server, files, reply>>

\* the artifact is kept, or the panic ends the build
ServerWriteReturns(written) ==
    IF IsOk(written)
    THEN /\ server' = written.v
         /\ pc' = "server_written"
         /\ UNCHANGED abort
    ELSE /\ Abort(written)
         /\ UNCHANGED server

\* the build driver calls ServerWriter::write
ServerWrite ==
    /\ pc = "client_written"
    /\ ServerWriteReturns(server_write(renamer, spec, collected_types))
    /\ UNCHANGED <<renamer, spec, types_to_check, collected_types, op_index, operations>>
    /\ UNCHANGED <<input, error, types, client, files, reply>>

\* the build driver formats the two artifacts; rustfmt succeeds or not
Format(ok) ==
    /\ pc = "server_written"
    /\ IF ok THEN pc' = "formatted" /\ UNCHANGED abort
       ELSE Abort(Panic("should format", <<>>))
    /\ UNCHANGED <<renamer, spec, types_to_check, collected_types, op_index, operations>>
    /\ UNCHANGED <<input, output_vars>>

\* std::fs::write("src/client_gen.rs", client); the write succeeds or not
WriteClientFile(ok) ==
    /\ pc = "formatted"
    /\ IF ok THEN /\ files' = files \cup {"src/client_gen.rs"}
                  /\ pc' = "client_saved"
                  /\ UNCHANGED abort
       ELSE /\ Abort(Panic("should write to a file", <<"src/client_gen.rs">>))
            /\ UNCHANGED files
    /\ UNCHANGED <<renamer, spec, types_to_check, collected_types, op_index, operations>>
    /\ UNCHANGED <<input, error, types, client, server, reply>>

\* std::fs::write("src/server_gen.rs", server); the write succeeds or not
WriteServerFile(ok) ==
    /\ pc = "client_saved"
    /\ IF ok THEN /\ files' = files \cup {"src/server_gen.rs"}
                  /\ pc' = "saved"
                  /\ UNCHANGED abort
       ELSE /\ Abort(Panic("should write to a file", <<"src/server_gen.rs">>))
            /\ UNCHANGED files
    /\ UNCHANGED <<renamer, spec, types_to_check, collected_types, op_index, operations>>
    /\ UNCHANGED <<input, error, types, client, server, reply>>

\* a generated client method runs and receives a response with the given status;
\* an arm that reads the body deserializes it or returns the error of res.json()
ClientCall(m, status, parsed) ==
    /\ pc = "saved"
    /\ m \in DOMAIN client
    /\ LET hit == matching_arm(client[m].arms, status)
       IN  reply' = [of |-> "client", index |-> m, status |-> status,
                     result |-> IF ~IsSome(hit) THEN [result |-> "none", value |-> "", body |-> None]
                                ELSE IF IsSome(Unwrap(hit).arm.body) /\ ~parsed
                                THEN [result |-> "Err", value |-> "JsonPayloadError", body |-> None]
                                ELSE Unwrap(hit).arm]
    /\ UNCHANGED <<pc, input, renamer, spec, types_to_check, collected_types, op_index,
                   operations, abort, error, types, client, server, files>>

\* the number of responses the handler of the chosen branch can return
Choices(hit) == IF IsSome(hit) THEN Len(Unwrap(hit).responses.arms) ELSE 0

\* the generated dispatcher serves the request a generated client method sends for
\* the i-th operation of the spec with v in its placeholders: the first branch
\* whose pattern and method match calls its handler, which fails (k = 0) or
\* returns its k-th response
ServerDispatch(i, k, v) ==
    /\ pc = "saved"
    /\ i \in DOMAIN spec.paths
    /\ k <= Choices(dispatch(server, request_segments(client_request(spec.paths[i], v)),
                             spec.paths[i].method))
    /\ reply' = serve(i, server, request_segments(client_request(spec.paths[i], v)),
                      spec.paths[i].method, k, <<>>)
    /\ UNCHANGED <<pc, input, renamer, spec, types_to_check, collected_types, op_index,
                   operations, abort, error, types, client, server, files>>

Next ==
    \/ \E r \in Renamers : WithRenamer(r)
    \/ \E text \in Texts : Run(text)
    \/ CollectStep
    \/ RunReturn
    \/ OperationsCall
    \/ OperationStep
    \/ OperationsReturn
    \/ TypesWrite
    \/ ClientWrite
    \/ ServerWrite
    \/ \E ok \in BOOLEAN : Format(ok)
    \/ \E ok \in BOOLEAN : WriteClientFile(ok)
    \/ \E ok \in BOOLEAN : WriteServerFile(ok)
    \/ \E m \in 1..MaxOperations, status \in Statuses, parsed \in BOOLEAN :
           ClientCall(m, status, parsed)
    \/ \E i \in 1..MaxOperations, k \in 0..MaxResponses, v \in PathValues :
           ServerDispatch(i, k, v)

Spec == Init /\ [][Next]_vars

-----------------------------------------------------------------------------
(* What the claims speak of *)

\* an AnalysisResult exists: run has returned
Analyzed == pc \in {"ready", "operations", "done", "aborted"} /\ abort.msg # "types to check should be resolvable"

\* the pointer of operation e
OperationPtr(e) == <<"paths", e.path, ToLowercase(e.method)>>

\* the response or request body a reference names in components (Option), the
\* value itself when it is inline
ResolveBody(bodies, b) ==
    IF IsObject(b) THEN Some(b)
    ELSE IF Len(Unwrap(b.ref)) = 3 /\ IsSome(Get(bodies, Unwrap(b.ref)[3]))
            /\ IsObject(Unwrap(Get(bodies, Unwrap(b.ref)[3])))
    THEN Get(bodies, Unwrap(b.ref)[3])
    ELSE None

\* the application/json schema of a response or request body, through a reference (Option)
JsonSchemaOf(bodies, b) ==
    IF IsSome(ResolveBody(bodies, b))
    THEN ContentSchema(Unwrap(ResolveBody(bodies, b)).content, "application/json")
    ELSE None

\* the pointer of that schema: below base when the body is inline, below the
\* referenced component otherwise
JsonSchemaPtr(base, b) ==
    join_ptr(IF IsObject(b) THEN base ELSE Unwrap(b.ref),
             <<"content", "application/json", "schema">>)

\* the type name of the JSON body of a response or request body that has one
BodyTypeName(bodies, base, b) ==
    analysis_name_type(collected_types, JsonSchemaPtr(base, b), Unwrap(JsonSchemaOf(bodies, b))).v

ResponseBase(e, status_code) == join_ptr(OperationPtr(e), <<"responses", status_code>>)

-----------------------------------------------------------------------------
(* C1 *)

\* C1: no two entries of AnalysisResult.schemas() have the same location pointer,
\* at any point of the discovery work list and in the result.
C1_UniqueLocations ==
    \A i, j \in DOMAIN collected_types :
        i # j => collected_types[i].location # collected_types[j].location

\* run has returned with schemas collected at seeds and two levels below a seed
C1_Witness ==
    /\ pc = "ready"
    /\ Len(collected_types) >= 6
    /\ \E i \in DOMAIN collected_types : Len(collected_types[i].location) >= 7

-----------------------------------------------------------------------------
(* C2 *)

\* C2: every Parameter(x) element of the path of a returned OperationDef has an
\* entry keyed (x, path) in the parameters map.
C2_PathParametersExist ==
    \A i \in DOMAIN operations : path_params_ok(operations[i])

-----------------------------------------------------------------------------
(* C3 *)

\* C3: response is "()" for exactly one response without a body, the body type
\* name for exactly one response with a body, and {OperationName}Response otherwise.
C3_ResponseEnvelope ==
    \A i \in DOMAIN operations :
        LET e == spec.paths[i]
            only == e.responses[1]
        IN  operations[i].response =
                IF Len(e.responses) = 1
                THEN (IF IsSome(JsonSchemaOf(spec.components.responses, only.value))
                      THEN BodyTypeName(spec.components.responses,
                                        ResponseBase(e, only.name), only.value)
                      ELSE "()")
                ELSE renamer_name_operation(renamer, spec, OperationPtr(e)) \o "Response"

-----------------------------------------------------------------------------
(* C4 *)

\* C4: every CollectedSchema is named by the Analyzer's renamer, default or set
\* through with_renamer: name = R.name_type(spec, location).
C4_NamedByConfiguredRenamer ==
    \A i \in DOMAIN collected_types :
        collected_types[i].name =
            renamer_name_type(renamer, spec, collected_types[i].location)

-----------------------------------------------------------------------------
(* The schema nodes of a spec, each with the pointer that names it *)

Node(ptr, sch) == [ptr |-> ptr, schema |-> sch]

\* UNION of Op(x) over the elements of a sequence
UnionOver(Op(_), seq) == UNION {Op(seq[i]) : i \in DOMAIN seq}

\* the node at ptr and every node below it (properties, items and composite branches)
RECURSIVE NodesBelow(_, _)
NodesBelow(ptr, sch) ==
    {Node(ptr, sch)}
    \cup (IF IsRef(sch) THEN {}
          ELSE UnionOver(LAMBDA p : NodesBelow(join_ptr(ptr, <<"properties", p.name>>), p.schema),
                         sch.properties)
               \cup (IF IsSome(sch.items)
                     THEN NodesBelow(join_ptr(ptr, <<"items">>), Unwrap(sch.items)) ELSE {})
               \cup UNION {NodesBelow(join_ptr(ptr, <<"anyOf", ToStringNat(i - 1)>>), sch.any_of[i])
                              : i \in DOMAIN sch.any_of}
               \cup UNION {NodesBelow(join_ptr(ptr, <<"allOf", ToStringNat(i - 1)>>), sch.all_of[i])
                              : i \in DOMAIN sch.all_of}
               \cup UNION {NodesBelow(join_ptr(ptr, <<"oneOf", ToStringNat(i - 1)>>), sch.one_of[i])
                              : i \in DOMAIN sch.one_of})

\* the nodes of the media types of an inline response or request body at base
BodyNodes(base, b) ==
    IF IsRef(b) THEN {}
    ELSE UnionOver(LAMBDA m : IF IsSome(m.schema)
                              THEN NodesBelow(join_ptr(base, <<"content", m.media_type, "schema">>),
                                              Unwrap(m.schema))
                              ELSE {},
                   b.content)

ParameterNodes(base, p) ==
    IF IsObject(p) /\ IsSome(p.schema)
    THEN NodesBelow(join_ptr(base, <<"schema">>), Unwrap(p.schema)) ELSE {}

OperationNodes(e) ==
    UNION {ParameterNodes(join_ptr(OperationPtr(e), <<"parameters", ToStringNat(i - 1)>>),
                          e.parameters[i]) : i \in DOMAIN e.parameters}
    \cup (IF IsSome(e.request_body)
          THEN BodyNodes(join_ptr(OperationPtr(e), <<"requestBody">>), Unwrap(e.request_body))
          ELSE {})
    \cup UnionOver(LAMBDA r : BodyNodes(ResponseBase(e, r.name), r.value), e.responses)

\* every schema node of a spec
SchemaNodes(s) ==
    UnionOver(LAMBDA e : NodesBelow(<<"components", "schemas", e.name>>, e.value),
              s.components.schemas)
    \cup UnionOver(LAMBDA e : BodyNodes(<<"components", "responses", e.name>>, e.value),
                   s.components.responses)
    \cup UnionOver(LAMBDA e : ParameterNodes(<<"components", "parameters", e.name>>, e.value),
                   s.components.parameters)
    \cup UnionOver(LAMBDA e : BodyNodes(<<"components", "requestBodies", e.name>>, e.value),
                   s.components.request_bodies)
    \cup UnionOver(OperationNodes, s.paths)

\* AnalysisResult.name_type on a node of the analyzed spec
NameTypeOf(n) == analysis_name_type(collected_types, n.ptr, n.schema)

-----------------------------------------------------------------------------
(* C5 *)

\* C5: name_type wraps its result in Option<...> for every inline schema whose
\* nullable flag is true, whatever its kind, and never wraps a `$ref` node.
C5_NullableWrapsEveryKind ==
    Analyzed =>
        \A n \in SchemaNodes(spec) :
            /\ IsObject(n.schema) /\ n.schema.nullable /\ IsOk(NameTypeOf(n)) =>
                   NameTypeOf(n).v =
                       "Option<" \o NameTypeOf(Node(n.ptr, [n.schema EXCEPT !.nullable = FALSE])).v
                           \o ">"
            /\ IsRef(n.schema) /\ IsOk(NameTypeOf(n)) =>
                   NameTypeOf(n).v = Unwrap(find_schema(collected_types, Unwrap(n.schema.ref))).name

-----------------------------------------------------------------------------
(* C6 *)

\* C6: for a `$ref` node name_type returns the name belonging to the referenced
\* pointer whenever the reference resolves to a schema of the spec (an array or a
\* scalar component included), and aborts only when the reference is unresolvable.
C6_RefNamesReferencedSchema ==
    Analyzed =>
        \A n \in SchemaNodes(spec) :
            IsRef(n.schema) =>
                IF IsSome(Resolve(spec, Unwrap(n.schema.ref)))
                THEN /\ IsOk(NameTypeOf(n))
                     /\ NameTypeOf(n).v = name_type(spec, Unwrap(n.schema.ref))
                ELSE ~IsOk(NameTypeOf(n))

-----------------------------------------------------------------------------
(* C7 *)

\* operations() has aborted in the iteration of the i-th operation
AbortedAt(i) == pc = "aborted" /\ op_index = i

\* the parameters map and the request body operations() computes for operation e,
\* or the panic
ParametersOf(e) ==
    parameter_defs(renamer, spec, collected_types, OperationPtr(e), Enumerate(e.parameters), <<>>)

RequestBodyOf(e) == request_body_of(collected_types, OperationPtr(e), e)

\* operations() has aborted while it built the parameters map of the i-th operation
AbortedInParameters(i) == AbortedAt(i) /\ ~IsOk(ParametersOf(spec.paths[i]))

\* operations() has aborted while it named the request body of the i-th operation
AbortedInRequestBody(i) ==
    AbortedAt(i) /\ IsOk(ParametersOf(spec.paths[i])) /\ ~IsOk(RequestBodyOf(spec.paths[i]))

RequestBodyBase(e) == join_ptr(OperationPtr(e), <<"requestBody">>)

\* the request body of e is inline and its application/json schema is an inline
\* object or composite schema
HasInlineObjectRequestBody(e) ==
    /\ IsSome(e.request_body) /\ IsObject(Unwrap(e.request_body))
    /\ LET sch == JsonSchemaOf(<<>>, Unwrap(e.request_body))
       IN  /\ IsSome(sch) /\ IsObject(Unwrap(sch))
           /\ (Unwrap(sch).schema_type = "object" \/ IsComposite(Unwrap(sch)))

\* C7: for an inline request body with an inline object or composite JSON schema,
\* operations() does not abort on the request body and request_body is
\* {OperationName}Request, the name of the CollectedSchema at
\* /paths/{p}/{m}/requestBody/content/application~1json/schema.
C7_InlineRequestBodyNamed ==
    \A i \in DOMAIN spec.paths :
        LET e == spec.paths[i]
            ptr == JsonSchemaPtr(RequestBodyBase(e), Unwrap(e.request_body))
        IN  HasInlineObjectRequestBody(e) =>
                /\ ~AbortedInRequestBody(i)
                /\ i \in DOMAIN operations =>
                       /\ IsSome(find_schema(collected_types, ptr))
                       /\ operations[i].request_body =
                              Some(Unwrap(find_schema(collected_types, ptr)).name)
                       /\ operations[i].request_body =
                              Some(name_operation(spec, OperationPtr(e)) \o "Request")

-----------------------------------------------------------------------------
(* C8 *)

\* the request body of e is a `$ref` to an entry of components/requestBodies that
\* has an application/json object schema
HasReferencedObjectRequestBody(s, e) ==
    /\ IsSome(e.request_body) /\ IsRef(Unwrap(e.request_body))
    /\ LET sch == JsonSchemaOf(s.components.request_bodies, Unwrap(e.request_body))
       IN  IsSome(sch) /\ IsObject(Unwrap(sch)) /\ Unwrap(sch).schema_type = "object"

\* C8: for a request body that is a `$ref` to a components/requestBodies entry with
\* an application/json object schema, operations() does not abort on the request
\* body and request_body is the name of the CollectedSchema of the referenced
\* request body.
C8_ReferencedRequestBodyNamed ==
    \A i \in DOMAIN spec.paths :
        LET e == spec.paths[i]
            ptr == JsonSchemaPtr(RequestBodyBase(e), Unwrap(e.request_body))
        IN  HasReferencedObjectRequestBody(spec, e) =>
                /\ ~AbortedInRequestBody(i)
                /\ i \in DOMAIN operations =>
                       /\ IsSome(find_schema(collected_types, ptr))
                       /\ operations[i].request_body =
                              Some(Unwrap(find_schema(collected_types, ptr)).name)

-----------------------------------------------------------------------------
(* C9 *)

\* C9: an entry of OperationDef.responses is None only if the response (inline, or
\* the components/responses entry a `$ref` points to) has no application/json
\* schema; a response with a JSON body schema maps to Some(body type name).
C9_ResponseBodiesKept ==
    \A i \in DOMAIN operations :
        \A k \in DOMAIN operations[i].responses :
            LET e == spec.paths[i]
                r == e.responses[k]
            IN  IF IsSome(JsonSchemaOf(spec.components.responses, r.value))
                THEN operations[i].responses[k] =
                         Entry(r.name, Some(BodyTypeName(spec.components.responses,
                                                         ResponseBase(e, r.name), r.value)))
                ELSE operations[i].responses[k] = Entry(r.name, None)

-----------------------------------------------------------------------------
(* C10 *)

\* the parameter is inline with a schema, or a `$ref` to an entry of
\* components/parameters that has one
IsDeclaredWithSchema(s, p) ==
    IsSome(ResolveParameter(s, p)) /\ IsSome(Unwrap(ResolveParameter(s, p)).schema)

ParameterKey(s, p) ==
    <<Unwrap(ResolveParameter(s, p)).name, Unwrap(ResolveParameter(s, p)).location>>

\* the pointer that names the schema of the k-th parameter of e: below the
\* operation when inline, below the component when referenced
ParameterSchemaPtr(e, k) ==
    IF IsObject(e.parameters[k])
    THEN join_ptr(OperationPtr(e), <<"parameters", ToStringNat(k - 1), "schema">>)
    ELSE join_ptr(Unwrap(e.parameters[k].ref), <<"schema">>)

\* the type name of the schema of the k-th parameter of e
ParameterTypeName(s, e, k) ==
    analysis_name_type(collected_types, ParameterSchemaPtr(e, k),
                       Unwrap(Unwrap(ResolveParameter(s, e.parameters[k])).schema))

\* the parameters of e are declared with a schema that has a type name, under
\* distinct (name, location) keys
HasWellFormedParameters(s, e) ==
    /\ \A k \in DOMAIN e.parameters :
           IsDeclaredWithSchema(s, e.parameters[k]) /\ IsOk(ParameterTypeName(s, e, k))
    /\ \A k, l \in DOMAIN e.parameters :
           k # l => ParameterKey(s, e.parameters[k]) # ParameterKey(s, e.parameters[l])

\* C10: for every parameter declared on an operation, inline or a `$ref` to a
\* components/parameters entry, operations() does not abort on the parameters and
\* the parameters map holds an entry keyed (name, location) whose schema_type is
\* the type name of the parameter's schema.
C10_ParametersTyped ==
    \A i \in DOMAIN spec.paths :
        LET e == spec.paths[i]
        IN  HasWellFormedParameters(spec, e) =>
                /\ ~AbortedInParameters(i)
                /\ i \in DOMAIN operations =>
                       \A k \in DOMAIN e.parameters :
                           LET key == ParameterKey(spec, e.parameters[k])
                           IN  /\ key \in DOMAIN operations[i].parameters
                               /\ operations[i].parameters[key].schema_type =
                                      ParameterTypeName(spec, e, k).v

-----------------------------------------------------------------------------
(* C11 *)

\* C11: parsing the path /pets/{id} in operations() yields exactly
\* [Segment(""), Segment("pets"), Segment(""), Parameter("id")] as OperationDef.path.
C11_LeadingEmptySegments ==
    \A i \in DOMAIN operations :
        spec.paths[i].path = "/pets/{id}" =>
            operations[i].path =
                <<Segment(""), Segment("pets"), Segment(""), PathParameter("id")>>

\* C11 as amended: parsing the path /pets/{id} in operations() yields exactly
\* [Segment("pets"), Parameter("id")]: a '/' pushes no segment onto an empty path,
\* and '{' replaces the empty segment the preceding '/' pushed.
C11_PathOfPetsId ==
    \A i \in DOMAIN operations :
        spec.paths[i].path = "/pets/{id}" =>
            operations[i].path = <<Segment("pets"), PathParameter("id")>>

\* operations() has returned an OperationDef for the path /pets/{id}
C11_Witness ==
    /\ pc = "done"
    /\ \E i \in DOMAIN operations : spec.paths[i].path = "/pets/{id}"

-----------------------------------------------------------------------------
(* C12 *)

\* the pointer matches one of the component or operation rules of name_type
MatchesRules1To7(ptr) ==
    \/ IsComponentPtr(ptr)
    \/ IsOperationRequestBodyPtr(ptr)
    \/ IsOperationParameterPtr(ptr)
    \/ IsOperationResponseBodyPtr(ptr)

ParentOf(ptr, n) == SubSeq(ptr, 1, Len(ptr) - n)

\* C12: for a pointer P that matches none of the component or operation rules,
\* name_type is decided by the final tokens of P: parent/items is named
\* name_type(parent) followed by Item, and parent/(anyOf|allOf|oneOf)/i is named
\* name_type(parent) followed by V{i}, whatever tokens the parent contains.
C12_NamedByFinalTokens ==
    \A j \in DOMAIN collected_types :
        LET P == collected_types[j].location
        IN  ~MatchesRules1To7(P) =>
                /\ P[Len(P)] = "items" /\ P[Len(P) - 1] # "properties" =>
                       name_type(spec, P) = name_type(spec, ParentOf(P, 1)) \o "Item"
                /\ Len(P) >= 2 /\ P[Len(P) - 1] \in {"anyOf", "allOf", "oneOf"} =>
                       name_type(spec, P) =
                           name_type(spec, ParentOf(P, 2)) \o "V" \o P[Len(P)]

-----------------------------------------------------------------------------
(* C13 *)

\* the build driver has aborted in TypesWriter::write with the panic of
\* write_type_to_tokens on the collected schema ty
AbortedWritingType(ty) ==
    LET w == write_type_to_tokens(renamer, collected_types, ty, ty.schema)
    IN  /\ pc = "aborted" /\ op_index = 0
        /\ ~IsOk(w)
        /\ abort = [msg |-> w.panic, at |-> w.at]

IsOneOf(sch) == IsObject(sch) /\ sch.one_of # <<>> /\ sch.any_of = <<>> /\ sch.all_of = <<>>

\* the type name of branch k of the oneOf composite ty, at its pointer L/oneOf/(k-1)
OneOfBranchType(ty, k) ==
    analysis_name_type(collected_types,
                       join_ptr(ty.location, <<"oneOf", ToStringNat(k - 1)>>),
                       ty.schema.one_of[k])

\* the enum the claim describes for the oneOf composite ty
OneOfEnum(ty) ==
    EnumDef(ty.name,
            [k \in DOMAIN ty.schema.one_of |->
                [name |-> "V" \o ToStringNat(k - 1), payload |-> Some(OneOfBranchType(ty, k).v)]])

\* C13: for a oneOf composite collected at L whose branches have a type name,
\* TypesWriter does not abort on it and emits the enum with one variant V{i} per
\* branch whose payload is name_type(L/oneOf/i, branch i).
C13_OneOfVariants ==
    \A j \in DOMAIN collected_types :
        LET ty == collected_types[j]
        IN  /\ pc \in {"aborted", "types_written"}
            /\ IsOneOf(ty.schema)
            /\ \A k \in DOMAIN ty.schema.one_of : IsOk(OneOfBranchType(ty, k))
            => /\ ~AbortedWritingType(ty)
               /\ pc = "types_written" =>
                      \E d \in DOMAIN types : types[d] = OneOfEnum(ty)

-----------------------------------------------------------------------------
(* C14 *)

\* the collected schema is an object schema, which TypesWriter emits as a struct
IsStructSchema(sch) == IsObject(sch) /\ ~IsComposite(sch) /\ sch.schema_type = "object"

\* TypesWriter::write emits one definition per collected schema, in the order of
\* schemas(): the definition emitted for the j-th collected schema
EmittedFor(j) == types[j]

\* C14: a property whose inline schema is {type: string, nullable: true} is emitted
\* with field type Option<String>, whether or not the schema requires it.
C14_NullableStringField ==
    pc = "types_written" =>
        \A j \in DOMAIN collected_types :
            LET sch == collected_types[j].schema
            IN  IsStructSchema(sch) =>
                    \A k \in DOMAIN sch.properties :
                        sch.properties[k].schema = Nullable(String) =>
                            EmittedFor(j).members[k].ptype = "Option<String>"

-----------------------------------------------------------------------------
(* C15 *)

\* name_type(property pointer, property schema) for property k of the j-th collected schema
PropertyType(j, k) ==
    analysis_name_type(collected_types,
                       join_ptr(collected_types[j].location,
                                <<"properties", collected_types[j].schema.properties[k].name>>),
                       collected_types[j].schema.properties[k].schema)

\* C15: the field emitted for a property of a collected object schema has type
\* name_type(property pointer, property schema), wrapped in one Option<...> if and
\* only if the property's JSON name is absent from the schema's required list.
C15_OptionIffNotRequired ==
    pc = "types_written" =>
        \A j \in DOMAIN collected_types :
            LET sch == collected_types[j].schema
            IN  IsStructSchema(sch) =>
                    /\ Len(EmittedFor(j).members) = Len(sch.properties)
                    /\ \A k \in DOMAIN sch.properties :
                           LET field == EmittedFor(j).members[k]
                               json_name == sch.properties[k].name
                           IN  /\ field.json_name = json_name
                               /\ IsOk(PropertyType(j, k))
                               /\ json_name \in sch.required =>
                                      field.ptype = PropertyType(j, k).v
                               /\ json_name \notin sch.required =>
                                      field.ptype = "Option<" \o PropertyType(j, k).v \o ">"

\* TypesWriter has emitted a struct with a required and a non-required property
C15_Witness ==
    /\ pc = "types_written"
    /\ \E j \in DOMAIN collected_types :
           LET sch == collected_types[j].schema
           IN  /\ IsStructSchema(sch)
               /\ \E k, l \in DOMAIN sch.properties :
                      /\ sch.properties[k].name \in sch.required
                      /\ sch.properties[l].name \notin sch.required
                      /\ EmittedFor(j).members[k].ptype = "String"
                      /\ EmittedFor(j).members[l].ptype = "Option<Option<String>>"

-----------------------------------------------------------------------------
(* C16 *)

\* the operation of the spec a reply of the generated code belongs to
RepliedOperation == spec.paths[reply.index]

\* the status codes an operation declares, as the keys of its responses
DeclaredCodes(e) == {e.responses[k].name : k \in DOMAIN e.responses}

\* the OperationDef of the replied operation
RepliedOperationDef == operation_def(renamer, spec, collected_types, RepliedOperation).v

JsonPayloadError == [result |-> "Err", value |-> "JsonPayloadError", body |-> None]

\* C16: a generated client method of an operation without a `default` response
\* returns Err(UnexpectedResponse) for a status that is none of the declared codes;
\* with a `default` response it never returns UnexpectedResponse, and such a status
\* gets the result of the default branch (or the error of reading its body).
C16_UnexpectedResponse ==
    reply.of = "client" =>
        LET declared == DeclaredCodes(RepliedOperation)
            undeclared == ToStringNat(reply.status) \notin declared
        IN  IF "default" \notin declared
            THEN undeclared => reply.result = ErrUnexpectedResponse
            ELSE /\ reply.result # ErrUnexpectedResponse
                 /\ undeclared =>
                        \/ reply.result = JsonPayloadError
                        \/ /\ reply.result.result = "Ok"
                           /\ Cardinality(declared) > 1 =>
                                  reply.result.value = RepliedOperationDef.response \o "::Sdefault"

\* a client method of an operation that declares 200 only has received 404 and
\* returned Err(UnexpectedResponse)
C16_Witness ==
    /\ reply.of = "client"
    /\ DeclaredCodes(RepliedOperation) = {"200"}
    /\ reply.status = 404
    /\ reply.result = ErrUnexpectedResponse

-----------------------------------------------------------------------------
(* C17 *)

\* C17: the dispatcher answers an operation with exactly one declared response
\* that has a body with the JSON of the value its handler returned, under the
\* one declared status code.
C17_SingleResponseBody ==
    (/\ reply.of = "server"
     /\ Len(RepliedOperation.responses) = 1
     /\ RepliedOperationDef.response # "()")
        => /\ reply.result.body = Some("handler result")
           /\ LET code == parse_u16(RepliedOperation.responses[1].name)
              IN  IsSome(code) => reply.result.status = Unwrap(code)

-----------------------------------------------------------------------------
(* C18 *)

\* C18: the dispatcher answers each envelope variant S{code} of an operation with
\* more than one response with the status code when it is numeric and with 500
\* when it is `default`, and with the JSON of the variant's payload as body
\* exactly when that response has a body type.
C18_EnvelopeVariants ==
    (reply.of = "server" /\ Len(RepliedOperation.responses) > 1) =>
        \E k \in DOMAIN RepliedOperation.responses :
            LET code == RepliedOperation.responses[k].name
            IN  /\ reply.variant = RepliedOperationDef.response \o "::S" \o code
                /\ IF code = "default" THEN reply.result.status = 500
                   ELSE ToStringNat(reply.result.status) = code
                /\ reply.result.body = IF IsSome(RepliedOperationDef.responses[k].value)
                                       THEN Some("variant payload")
                                       ELSE None

\* the dispatcher has answered the Sdefault variant of an operation that declares
\* 200 and default, both with a body
C18_Witness ==
    /\ reply.of = "server"
    /\ DeclaredCodes(RepliedOperation) = {"200", "default"}
    /\ reply.variant = RepliedOperationDef.response \o "::Sdefault"
    /\ reply.result = HttpResponse(500, Some("variant payload"))

-----------------------------------------------------------------------------
(* C19 *)

\* C19: for a text that does not deserialize into a Spec, Analyzer::run returns
\* Err(AnalysisError::Deserialization) with the parser's error; it does not abort,
\* discovers no schema and produces no AnalysisResult, so nothing is generated.
C19_DeserializationError ==
    input.error # "" =>
        /\ pc = "failed"
        /\ error = Deserialization(input.error)
        /\ abort = NoAbort
        /\ spec = NoSpec
        /\ types_to_check = <<>> /\ collected_types = <<>> /\ operations = <<>>
        /\ types = <<>> /\ client = <<>> /\ server = <<>> /\ files = {}

\* run has returned the error of a document whose `$ref` is not a string
C19_Witness ==
    /\ pc = "failed"
    /\ input = Malformed("$ref is not of type string")
    /\ error = Deserialization("$ref is not of type string")

-----------------------------------------------------------------------------
(* C20 *)

\* the build driver has not yet formatted both artifacts
BeforeOutput ==
    pc \in {"new", "collect", "failed", "ready", "operations", "done",
            "types_written", "client_written", "server_written"}

\* C20: the build driver writes no output file before the analysis, the three
\* writers and the formatting of both artifacts have completed, and an invocation
\* that fails at any step leaves neither output file written.
C20_NoPartialOutput ==
    /\ BeforeOutput => files = {}
    /\ pc \in {"aborted", "failed"} => files = {}

-----------------------------------------------------------------------------
(* C21 *)

\* the braces of a path are balanced: every '{' is closed by one '}' and every '}'
\* closes an open '{'
RECURSIVE BracesBalanced(_, _)
BracesBalanced(cs, open) ==
    IF cs = <<>> THEN ~open
    ELSE IF Head(cs) = "{" THEN ~open /\ BracesBalanced(Tail(cs), TRUE)
    ELSE IF Head(cs) = "}" THEN open /\ BracesBalanced(Tail(cs), FALSE)
    ELSE BracesBalanced(Tail(cs), open)

\* C21: operations() aborts for every path with unbalanced braces (a '{' that is
\* never closed, a '}' with no open placeholder, a second '}' after the placeholder
\* was closed): it returns an OperationDef only for paths with balanced braces.
C21_UnbalancedBracesAbort ==
    \A i \in DOMAIN operations : BracesBalanced(Chars(spec.paths[i].path), FALSE)

-----------------------------------------------------------------------------
(* C22 *)

\* the schema nodes of s still to be visited for a work list: the nodes at or
\* below each of its pointers, a $ref node counting alone
RECURSIVE Remaining(_, _)
Remaining(s, todo) ==
    IF todo = <<>> THEN 0
    ELSE (IF IsSome(Resolve(s, Head(todo)))
          THEN Cardinality(NodesBelow(Head(todo), Unwrap(Resolve(s, Head(todo)))))
          ELSE 1)
         + Remaining(s, Tail(todo))

IsStrictPrefix(p, q) == Len(p) < Len(q) /\ SubSeq(q, 1, Len(p)) = p

\* the pointers the step has pushed in place of the popped one
Pushed == SubSeq(types_to_check', Len(types_to_check), Len(types_to_check'))

\* C22: schema discovery terminates, also on schemas that refer to themselves or
\* to each other through $ref: every iteration of the work-list loop that does
\* not end it pops one pointer, pushes only strict extensions of it, none for a
\* $ref node, and leaves fewer schema nodes to visit than before.
C22_DiscoveryTerminates ==
    [][(pc = "collect" /\ pc' = "collect") =>
           /\ types_to_check # <<>>
           /\ Len(types_to_check') >= Len(types_to_check) - 1
           /\ SubSeq(types_to_check', 1, Len(types_to_check) - 1) = Pop(types_to_check)
           /\ \A k \in DOMAIN Pushed : IsStrictPrefix(Last(types_to_check), Pushed[k])
           /\ IsRef(Unwrap(Resolve(spec, Last(types_to_check)))) => Pushed = <<>>
           /\ Remaining(spec', types_to_check') < Remaining(spec, types_to_check)]_vars

\* discovery has ended with an empty work list on a spec whose Pet and Thing refer
\* to each other
C22_Witness ==
    /\ pc = "ready"
    /\ types_to_check = <<>>
    /\ IsSome(Get(spec.components.schemas, "Thing"))
    /\ IsObject(Unwrap(Get(spec.components.schemas, "Thing")))
    /\ Unwrap(Get(spec.components.schemas, "Thing")).one_of
           = <<SchemaRef(PetPtr), ObjectSchema(<<Property("tag", SchemaRef(ThingPtr))>>, {})>>
    /\ Len(collected_types) >= 3

-----------------------------------------------------------------------------
(* C23 *)

\* the '/'-separated segments of a path, the empty ones left out
PathSegments(cs) == FlatMap(LAMBDA seg : IF seg = <<>> THEN <<>> ELSE <<seg>>,
                            SplitOn(cs, <<"/">>, <<>>, <<>>))

BraceFree(seg) == \A k \in DOMAIN seg : seg[k] \notin {"{", "}"}

IsPlaceholder(seg) ==
    /\ Len(seg) >= 3 /\ Head(seg) = "{" /\ seg[Len(seg)] = "}"
    /\ BraceFree(SubSeq(seg, 2, Len(seg) - 1))

\* every segment of the path is a brace-free literal or exactly {name}
IsWellFormedPath(cs) ==
    /\ cs # <<>> /\ Head(cs) = "/"
    /\ \A k \in DOMAIN PathSegments(cs) :
           BraceFree(PathSegments(cs)[k]) \/ IsPlaceholder(PathSegments(cs)[k])

\* Parameter(name) for each placeholder segment and Segment(literal) for each literal
ExpectedPath(cs) ==
    [k \in DOMAIN PathSegments(cs) |->
        IF IsPlaceholder(PathSegments(cs)[k])
        THEN PathParameter(Str(SubSeq(PathSegments(cs)[k], 2, Len(PathSegments(cs)[k]) - 1)))
        ELSE Segment(Str(PathSegments(cs)[k]))]

\* operations() has aborted in the path parser on the i-th operation
AbortedInPath(i) ==
    /\ AbortedAt(i)
    /\ abort.msg \in {"parameter start is incorrect for path",
                      "parameter end is incorrect for path"}

\* C23: for a path whose segments are brace-free literals or exactly {name}, at
\* any position including the first, the path parser of operations() does not
\* abort and yields Parameter(name) and Segment(literal) in the order of the segments.
C23_WellFormedPathsParse ==
    \A i \in DOMAIN spec.paths :
        IsWellFormedPath(Chars(spec.paths[i].path)) =>
            /\ ~AbortedInPath(i)
            /\ i \in DOMAIN operations =>
                   operations[i].path = ExpectedPath(Chars(spec.paths[i].path))

-----------------------------------------------------------------------------
(* C24 *)

\* the locations of schemas()
Recorded == {collected_types[j].location : j \in DOMAIN collected_types}

\* an inline schema that is composite or has type object
IsRecordable(sch) == IsObject(sch) /\ (IsComposite(sch) \/ sch.schema_type = "object")

\* the expansion goes from the node a towards the node n below it: through a
\* branch of a composite, else through a property of an object, else through the
\* items of an array
StepTaken(a, n) ==
    LET token == n.ptr[Len(a.ptr) + 1]
    IN  IF IsComposite(a.schema) THEN token \in {"anyOf", "allOf", "oneOf"}
        ELSE IF a.schema.schema_type = "object" THEN token = "properties"
        ELSE IF a.schema.schema_type = "array" THEN token = "items"
        ELSE FALSE

\* the expansion reaches the node n: it takes the step towards n at every schema
\* node above it
IsExpanded(n) ==
    \A a \in SchemaNodes(spec) : IsStrictPrefix(a.ptr, n.ptr) => StepTaken(a, n)

\* C24: schemas() holds a CollectedSchema at p if and only if p is a seed or is
\* reached from a seed through inline properties, inline items or composite
\* branches, and the node at p is an inline schema that is composite or has type
\* object.
C24_RecordedIffReachable ==
    pc = "ready" =>
        Recorded = {n.ptr : n \in {m \in SchemaNodes(spec) : IsRecordable(m.schema)}}

\* C24 as amended: schemas() holds a CollectedSchema at p if and only if the node
\* at p is an inline schema that is composite or has type object and p is a seed
\* or is reached from a seed by the expansion, which goes through the branches of
\* a composite, through the inline properties of an object that is not composite,
\* and through the inline items of an array that is not composite; arrays,
\* scalars and $ref nodes are never recorded.
C24_RecordedIffExpanded ==
    pc = "ready" =>
        Recorded = {n.ptr : n \in {m \in SchemaNodes(spec) :
                                      IsRecordable(m.schema) /\ IsExpanded(m)}}

\* discovery has recorded the composite object Thing and its allOf branch is a
\* $ref, and has not recorded the inline object property beside the allOf
C24_Witness ==
    /\ pc = "ready"
    /\ Get(spec.components.schemas, "Thing") = Some(MixedSchema)
    /\ ThingPtr \in Recorded
    /\ join_ptr(ThingPtr, <<"properties", "tag">>) \notin Recorded

-----------------------------------------------------------------------------
(* C25 *)

\* C25: two CollectedSchemas with different locations never have the same name,
\* so the Types Writer never emits two declarations with one identifier.
C25_DistinctNames ==
    \A i, j \in DOMAIN collected_types :
        collected_types[i].location # collected_types[j].location =>
            collected_types[i].name # collected_types[j].name

-----------------------------------------------------------------------------
(* C26 *)

\* the dispatcher has handled a request a generated client method sent
Requested == reply.of \in {"server", "dispatcher"}

\* the segment pattern of the operation the request was sent for
RequestedPattern == parse_path(<<>>, Chars(RepliedOperation.path)).v

\* C26: the request path the client formats for an operation, split on '/' with
\* the first element skipped, matches the segment pattern the server has for that
\* operation and binds each placeholder to the value the client inserted, for
\* every operation, the one on the root path included.
C26_ClientUrlMatchesPattern ==
    Requested =>
        /\ PatternMatches(RequestedPattern, reply.request)
        /\ \E v \in PathValues :
               /\ reply.request = request_segments(client_request(RepliedOperation, v))
               /\ \A k \in DOMAIN bound_variables(RequestedPattern, reply.request) :
                      bound_variables(RequestedPattern, reply.request)[k].value = v

-----------------------------------------------------------------------------
(* C27 *)

\* the identifiers the slice pattern of a branch binds, in path order
PatternIdentifiers(branch) ==
    LET IsBinding(x) == x.kind = "Parameter"
        bindings == SelectSeq(branch.path, IsBinding)
    IN  [k \in DOMAIN bindings |-> bindings[k].s]

\* the identifiers a branch reads in from_str and passes to the handler
ParsedIdentifiers(branch) == [k \in DOMAIN branch.path_params |-> branch.path_params[k].name]

\* C27: in every branch of the generated dispatcher the local variable the segment
\* pattern binds for a placeholder is the identifier the branch reads when it
\* parses the parameter with from_str and passes it to the handler, also for a
\* name that name_parameter changes, such as petId.
C27_PatternBindsParsedVariable ==
    \A b \in DOMAIN server : PatternIdentifiers(server[b]) = ParsedIdentifiers(server[b])

-----------------------------------------------------------------------------
(* C28 *)

\* the branches of the dispatcher for one path pattern and method
BranchesFor(path, method) ==
    {b \in DOMAIN server : server[b].path = path /\ server[b].method = method}

\* the operations of the spec with one path and method
OperationsFor(path, method) ==
    {i \in DOMAIN spec.paths :
        /\ parse_path(<<>>, Chars(spec.paths[i].path)).v = path
        /\ spec.paths[i].method = method}

\* the branches of one path pattern stand together, as the inner branches of one
\* outer match, and there is one of them for each operation on that path
GroupedByPath ==
    /\ \A a, b, c \in DOMAIN server :
           (a < b /\ b < c /\ server[a].path = server[c].path) =>
               server[b].path = server[a].path
    /\ \A b \in DOMAIN server :
           Cardinality(BranchesFor(server[b].path, server[b].method))
               = Cardinality(OperationsFor(server[b].path, server[b].method))
    /\ server # <<>> => Len(server) = Len(spec.paths)

\* some declared (path pattern, method) pair matches the request
SomePairMatches ==
    \E b \in DOMAIN server :
        /\ PatternMatches(server[b].path, reply.request)
        /\ server[b].method = RepliedOperation.method

-----------------------------------------------------------------------------
(* C29 *)

\* the positions of the wildcard arms of a status-code match
WildcardArms(arms) == {k \in DOMAIN arms : arms[k].pattern.wildcard}

\* C29: every status-code match the Client Writer emits has exactly one wildcard
\* arm and it is the last arm, so no arm of a declared numeric status code comes
\* after a wildcard; the wildcard is the arm of `default` when it is declared and
\* the UnexpectedResponse arm otherwise.
C29_OneWildcardArmLast ==
    \A m \in DOMAIN client :
        /\ WildcardArms(client[m].arms) = {Len(client[m].arms)}
        /\ client[m].arms # <<>>
        /\ (Last(client[m].arms).arm = ErrUnexpectedResponse)
               <=> (\A k \in DOMAIN spec.paths[m].responses :
                        spec.paths[m].responses[k].name # "default")

\* the client has a method whose match has the arm of 200 and then the wildcard arm
\* of a declared default, and one that ends with the UnexpectedResponse arm
C29_Witness ==
    /\ \E m \in DOMAIN client :
           /\ Len(client[m].arms) = 2
           /\ client[m].arms[1].pattern = CodePattern(200)
           /\ client[m].arms[2].pattern = Wildcard
           /\ client[m].arms[2].arm.result = "Ok"
    /\ \E m \in DOMAIN client :
           /\ Len(client[m].arms) = 2
           /\ client[m].arms[2] = [pattern |-> Wildcard, arm |-> ErrUnexpectedResponse]

-----------------------------------------------------------------------------
(* C30 *)

\* the OperationDef of the m-th operation
OperationDefAt(m) == operation_def(renamer, spec, collected_types, spec.paths[m]).v

\* the Types Writer has emitted an enum declaration with this name
EnumEmitted(name) == \E d \in DOMAIN types : types[d].kind = "enum" /\ types[d].name = name

\* C30: for every OperationDef, with any number of declared responses, zero
\* included, the response type of the generated trait signature is `()`, the type
\* expression of its single response body, or an envelope name for which the Types
\* Writer emits an enum declaration.
C30_ResponseTypeDeclared ==
    \A m \in DOMAIN client :
        \/ client[m].signature.returns = "()"
        \/ /\ Len(OperationDefAt(m).responses) = 1
           /\ OperationDefAt(m).responses[1].value = Some(client[m].signature.returns)
        \/ EnumEmitted(client[m].signature.returns)

====
